---- MODULE Spec2Model ----
(***************************************************************************)
(* DataAggregator (analyzer/aggregator.py): period and source aggregation, *)
(* sentiment summary, trend calculation and summary statistics.            *)
(*                                                                         *)
(* Values.  A record (a Python dict) is a TLA+ record over Fields in which *)
(* an absent key holds Absent (<<>>); a present label is <<"positive">>,   *)
(* a present timestamp is <<t>> (t: minutes since a Monday 00:00), and a   *)
(* present float is an exact rational <<n, d>> in lowest terms, d > 0.     *)
(* NaN is <<0, 0>> and Python's None is <<"None">>.        Floating-point *)
(* arithmetic is modelled exactly: rounding happens only where the code    *)
(* calls round().                                                          *)
(***************************************************************************)
EXTENDS Integers, Sequences, FiniteSets, TLC

VARIABLES data, tsType, call, result,
          aggregation_functions, threads, aggregated, by_source,
          aggregated_data, sentiment_results, utcnow, request, response,
          config, url_configs, results, robots_txt, robots_cache, last_request_time,
          clock, tasks,
          jobs, scheduler, results_callback, runs, last_call, created, executions, failures,
          scraped_data, foreign_keys, cleanup

\* the state of concurrent callers of one shared instance
concurrent == <<aggregation_functions, threads, aggregated, by_source>>

\* the database tables, the clock and the request served by the HTTP layer
api == <<aggregated_data, sentiment_results, utcnow, request, response>>

\* one scraper instance, the list handed to scrape_multiple and what it
\* returns, the robots.txt files of the hosts, the time and the coroutines of
\* the call
scraping == <<config, url_configs, results, robots_txt, robots_cache, last_request_time,
              clock, tasks>>

\* one ScraperScheduler: its jobs table, the AsyncIOScheduler it wraps, the
\* results callback, the job runs in progress, what the last call to it did,
\* and counts of the jobs created, the runs started and the runs that failed
scheduling == <<jobs, scheduler, results_callback, runs, last_call, created, executions,
                failures>>

\* the scraped_data table, whether the database enforces foreign keys, and
\* what the last cleanup did
storage == <<scraped_data, foreign_keys, cleanup>>

vars == <<data, tsType, call, result, concurrent, api, scraping, scheduling, storage>>

\* ------------------------------------------------------------------ bounds
MaxLen == 3
MaxSeries == 4
MaxItems == 5
MaxShared == 2
MaxRows == 2
MaxUrls == 3
MaxTime == 3

\* ------------------------------------------------------- exact arithmetic
Abs(x) == IF x < 0 THEN -x ELSE x

RECURSIVE Gcd(_, _)
Gcd(a, b) == IF b = 0 THEN a ELSE Gcd(b, a % b)

NaN == <<0, 0>>
IsNaN(x) == x[2] = 0

Rat(n, d) ==
    LET g == Gcd(Abs(n), Abs(d))
        s == IF d < 0 THEN -1 ELSE 1
    IN  <<s * (n \div g), s * (d \div g)>>

FromInt(n) == <<n, 1>>
Zero == FromInt(0)

RAdd(a, b) ==
    IF IsNaN(a) \/ IsNaN(b) THEN NaN
    ELSE LET g == Gcd(a[2], b[2])
         IN  Rat(a[1] * (b[2] \div g) + b[1] * (a[2] \div g), (a[2] \div g) * b[2])

RNeg(a) == IF IsNaN(a) THEN NaN ELSE <<-a[1], a[2]>>
RSub(a, b) == RAdd(a, RNeg(b))

RMul(a, b) ==
    IF IsNaN(a) \/ IsNaN(b) THEN NaN
    ELSE LET g1 == Gcd(Abs(a[1]), b[2])
             g2 == Gcd(Abs(b[1]), a[2])
         IN  Rat((a[1] \div g1) * (b[1] \div g2), (a[2] \div g2) * (b[2] \div g1))

\* a / b for b neither 0 nor NaN
RDiv(a, b) ==
    IF IsNaN(a) \/ IsNaN(b) THEN NaN
    ELSE RMul(a, IF b[1] < 0 THEN <<-b[2], -b[1]>> ELSE <<b[2], b[1]>>)

RAbs(a) == IF IsNaN(a) THEN NaN ELSE <<Abs(a[1]), a[2]>>

\* Python's float comparisons: every comparison with NaN is False
RLt(a, b) == ~IsNaN(a) /\ ~IsNaN(b) /\ RSub(a, b)[1] < 0
RGt(a, b) == RLt(b, a)
\* Python's != : True when either side is NaN
RNe(a, b) == IsNaN(a) \/ IsNaN(b) \/ a # b

\* round(x, k) with scale = 10^k: to the nearest multiple of 1/scale, ties to even
Round(x, scale) ==
    IF IsNaN(x) THEN NaN
    ELSE LET y == RMul(x, FromInt(scale))
             q == y[1] \div y[2]
             r == y[1] % y[2]
             up == 2 * r > y[2] \/ (2 * r = y[2] /\ q % 2 = 1)
         IN  Rat(IF up THEN q + 1 ELSE q, scale)

\* sum(xs) of a list of floats, left to right from 0
RECURSIVE PySum(_)
PySum(xs) == IF xs = <<>> THEN Zero
             ELSE RAdd(PySum(SubSeq(xs, 1, Len(xs) - 1)), xs[Len(xs)])

\* min(xs) / max(xs) of a non-empty list: the running extremum is replaced only
\* by an element that compares strictly below (above) it
RECURSIVE PyMin(_)
PyMin(xs) ==
    IF Len(xs) = 1 THEN xs[1]
    ELSE LET m == PyMin(SubSeq(xs, 1, Len(xs) - 1))
         IN  IF RLt(xs[Len(xs)], m) THEN xs[Len(xs)] ELSE m

RECURSIVE PyMax(_)
PyMax(xs) ==
    IF Len(xs) = 1 THEN xs[1]
    ELSE LET m == PyMax(SubSeq(xs, 1, Len(xs) - 1))
         IN  IF RGt(xs[Len(xs)], m) THEN xs[Len(xs)] ELSE m

\* ----------------------------------------------------------------- records
Absent == <<>>
None == <<"None">>
Fields == {"sentiment", "score", "confidence", "analyzed_at", "source", "average_score"}

\* `f in item` for a dict
Has(r, f) == f \in DOMAIN r /\ r[f] # Absent

EmptyRecord == [f \in Fields |-> Absent]

\* pd.DataFrame(data).columns: the union of the keys of the rows
Columns(d) == {f \in Fields : \E i \in 1..Len(d) : Has(d[i], f)}

\* a float column of the frame as a list: NaN where the row lacks the key
ColumnList(group, f) == [i \in 1..Len(group) |-> IF Has(group[i], f) THEN group[i][f] ELSE NaN]

KnownLabels == {"positive", "negative", "neutral"}

\* CountLabel reading a missing label as "neutral"
CountLabel_Defaulting(group, label) ==
    Cardinality({i \in 1..Len(group) :
        (IF Has(group[i], "sentiment") THEN group[i].sentiment[1] ELSE "neutral") = label})

\* value_counts().get(label, 0)
CountLabel(group, label) ==
    Cardinality({i \in 1..Len(group) : Has(group[i], "sentiment") /\ group[i].sentiment[1] = label})

\* ------------------------------------------------------ aggregate_by_period
MinutesPerDay == 24 * 60
MinutesPerHour == MinutesPerDay \div 24
MinutesPerWeek == 7 * MinutesPerDay

\* PeriodOf with the fallback branch taking the hour instead of the day
PeriodOf_FallbackHourly(period, t) ==
    IF period = "daily" THEN (t \div MinutesPerDay) * MinutesPerDay
    ELSE IF period = "weekly" THEN (t \div MinutesPerWeek) * MinutesPerWeek
    ELSE (t \div MinutesPerHour) * MinutesPerHour

\* the 'period' column: the start of the calendar day, of the Monday-started
\* week, or of the clock hour holding t; any other granularity takes the day
PeriodOf(period, t) ==
    IF period = "daily" THEN (t \div MinutesPerDay) * MinutesPerDay
    ELSE IF period = "weekly" THEN (t \div MinutesPerWeek) * MinutesPerWeek
    ELSE IF period = "hourly" THEN (t \div MinutesPerHour) * MinutesPerHour
    ELSE (t \div MinutesPerDay) * MinutesPerDay

\* a finite set of integers as an ascending list
RECURSIVE Ascending(_)
Ascending(S) ==
    IF S = {} THEN <<>>
    ELSE LET m == CHOOSE x \in S : \A y \in S : x <= y
         IN  <<m>> \o Ascending(S \ {m})

\* the rows that carry the time field, in order
Dated(d, date_field) ==
    LET Carries(r) == Has(r, date_field)
    IN  SelectSeq(d, Carries)

\* GroupKeys yielding one key per dated row instead of one per distinct key
GroupKeys_PerRow(d, period, date_field) ==
    [i \in 1..Len(Dated(d, date_field)) |-> PeriodOf(period, Dated(d, date_field)[i][date_field][1])]

\* df.groupby('period'): the distinct keys in ascending order; a row whose key
\* is NaT (no timestamp) belongs to no group
GroupKeys(d, period, date_field) ==
    Ascending({PeriodOf(period, d[i][date_field][1]) : i \in {j \in 1..Len(d) : Has(d[j], date_field)}})

GroupRows(d, period, date_field, key) ==
    LET InGroup(r) == Has(r, date_field) /\ PeriodOf(period, r[date_field][1]) = key
    IN  SelectSeq(d, InGroup)

\* _aggregate_group(group, period); cols are the columns of the whole frame
AggregateGroup(group, key, cols) ==
    LET scores == IF "score" \in cols THEN ColumnList(group, "score") ELSE <<>>
        confidences == IF "confidence" \in cols THEN ColumnList(group, "confidence") ELSE <<>>
    IN  [ period |-> key,
          total_items |-> Len(group),
          sentiment_distribution |->
              [l \in KnownLabels |-> IF "sentiment" \in cols THEN CountLabel(group, l) ELSE 0],
          average_score |->
              IF scores # <<>> THEN RDiv(PySum(scores), FromInt(Len(scores))) ELSE Zero,
          average_confidence |->
              IF confidences # <<>> THEN RDiv(PySum(confidences), FromInt(Len(confidences))) ELSE Zero,
          min_score |-> IF scores # <<>> THEN PyMin(scores) ELSE None,
          max_score |-> IF scores # <<>> THEN PyMax(scores) ELSE None ]

\* sorted(aggregated, key=lambda x: x['period']): a stable insertion sort
RECURSIVE SortedByPeriod(_)
SortedByPeriod(bs) ==
    IF bs = <<>> THEN <<>>
    ELSE LET rest == SortedByPeriod(SubSeq(bs, 1, Len(bs) - 1))
             b == bs[Len(bs)]
             k == Cardinality({i \in 1..Len(rest) : rest[i].period <= b.period})
         IN  SubSeq(rest, 1, k) \o <<b>> \o SubSeq(rest, k + 1, Len(rest))

\* the loop over df.groupby('period'): one bucket per key, in key order
PeriodBuckets(d, period, date_field) ==
    LET keys == GroupKeys(d, period, date_field)
    IN  [i \in 1..Len(keys) |->
            AggregateGroup(GroupRows(d, period, date_field, keys[i]), keys[i], Columns(d))]

\* aggregate_by_period without the column check and with the rows that lack
\* the time field kept as a bucket of their own (groupby(dropna=False))
aggregate_by_period_KeepUndated(d, period, date_field) ==
    LET Undated(r) == ~Has(r, date_field)
        rest == SelectSeq(d, Undated)
    IN  IF d = <<>> THEN <<>>
        ELSE SortedByPeriod(PeriodBuckets(d, period, date_field))
             \o (IF rest = <<>> THEN <<>> ELSE <<AggregateGroup(rest, 0 - 1, Columns(d))>>)

aggregate_by_period(d, period, date_field) ==
    IF d = <<>> THEN <<>>
    ELSE IF date_field \notin Columns(d) THEN <<>>
    ELSE SortedByPeriod(PeriodBuckets(d, period, date_field))

\* --------------------------------------------------- _get_sentiment_summary
\* item.get('sentiment', 'neutral')
LabelOf(item) == IF Has(item, "sentiment") THEN item.sentiment[1] ELSE "neutral"

\* counts[label] after the counting loop
Count(items, label) == Cardinality({i \in 1..Len(items) : LabelOf(items[i]) = label})

\* the position at which a label enters the counts dict
FirstSeen(items, label) == CHOOSE i \in 1..Len(items) :
    LabelOf(items[i]) = label /\ \A j \in 1..(i - 1) : LabelOf(items[j]) # label

\* Dominant keeping the last of the labels tied for the largest count
Dominant_LastMax(items) ==
    LET seen == {LabelOf(items[i]) : i \in 1..Len(items)}
        top == {l \in seen : \A m \in seen : Count(items, m) <= Count(items, l)}
    IN  CHOOSE l \in top : \A m \in top : FirstSeen(items, l) >= FirstSeen(items, m)

\* max(counts.items(), key=lambda x: x[1])[0]: the first key, in insertion
\* order, whose count is the largest
Dominant(items) ==
    LET seen == {LabelOf(items[i]) : i \in 1..Len(items)}
        top == {l \in seen : \A m \in seen : Count(items, m) <= Count(items, l)}
    IN  CHOOSE l \in top : \A m \in top : FirstSeen(items, l) <= FirstSeen(items, m)

\* Pct rounding to whole percents
Pct_WholePercent(items, label) ==
    Round(RMul(RDiv(FromInt(Count(items, label)), FromInt(Len(items))), FromInt(100)), 1)

\* round(percentages.get(label, 0), 1)
Pct(items, label) == Round(RMul(RDiv(FromInt(Count(items, label)), FromInt(Len(items))), FromInt(100)), 10)

\* get_sentiment_summary without the early return for an empty list
get_sentiment_summary_NoEmptyCase(sentiments) ==
    [ positive |-> Count(sentiments, "positive"),
      negative |-> Count(sentiments, "negative"),
      neutral |-> Count(sentiments, "neutral"),
      positive_pct |-> Zero,
      negative_pct |-> Zero,
      neutral_pct |-> Zero,
      dominant |-> "neutral" ]

get_sentiment_summary(sentiments) ==
    IF sentiments = <<>>
    THEN [positive |-> 0, negative |-> 0, neutral |-> 0, dominant |-> "neutral"]
    ELSE [ positive |-> Count(sentiments, "positive"),
           negative |-> Count(sentiments, "negative"),
           neutral |-> Count(sentiments, "neutral"),
           positive_pct |-> Pct(sentiments, "positive"),
           negative_pct |-> Pct(sentiments, "negative"),
           neutral_pct |-> Pct(sentiments, "neutral"),
           dominant |-> Dominant(sentiments) ]

\* ------------------------------------------------------ aggregate_by_source
Ok(v) == [status |-> "ok", value |-> v]
Raised(e) == [status |-> "raised", value |-> e]

\* item.get('source', 'unknown')
SourceOf(item) == IF Has(item, "source") THEN item.source[1] ELSE "unknown"

\* datetime.min: earlier than every timestamp of the model (all are >= 0)
DatetimeMin == <<0 - 1>>

\* item.get('analyzed_at', datetime.min)
StampOf(item) == IF Has(item, "analyzed_at") THEN item.analyzed_at ELSE DatetimeMin

\* max() compares a str timestamp with datetime.min: TypeError
MixedStamps(items, ty) ==
    /\ ty = "str"
    /\ \E i \in 1..Len(items) : Has(items[i], "analyzed_at")
    /\ \E i \in 1..Len(items) : ~Has(items[i], "analyzed_at")

\* max(...) over the timestamps of a non-empty partition
LastUpdated(items) ==
    LET stamps == {StampOf(items[i])[1] : i \in 1..Len(items)}
    IN  <<CHOOSE t \in stamps : \A u \in stamps : u <= t>>

SourceItems(d, source) ==
    LET InSource(item) == SourceOf(item) = source
    IN  SelectSeq(d, InSource)

WithSentiment(items) ==
    LET Carries(item) == Has(item, "sentiment")
    IN  SelectSeq(items, Carries)

aggregate_by_source(d, ty) ==
    LET sources == {SourceOf(d[i]) : i \in 1..Len(d)}
    IN  IF \E s \in sources : MixedStamps(SourceItems(d, s), ty)
        THEN Raised("TypeError")
        ELSE Ok([s \in sources |->
                 [ total_items |-> Len(SourceItems(d, s)),
                   sentiment_summary |-> get_sentiment_summary(WithSentiment(SourceItems(d, s))),
                   last_updated |-> LastUpdated(SourceItems(d, s)) ]])

\* --------------------------------------------------------- calculate_trends
\* the non-NaN values of a list, in order
RECURSIVE Present(_)
Present(xs) ==
    IF xs = <<>> THEN <<>>
    ELSE LET front == Present(SubSeq(xs, 1, Len(xs) - 1))
         IN  IF IsNaN(xs[Len(xs)]) THEN front ELSE Append(front, xs[Len(xs)])

\* pandas Series.mean(): the mean of the non-NaN values, NaN when there is none
NanMean(xs) ==
    LET ys == Present(xs)
    IN  IF ys = <<>> THEN NaN ELSE RDiv(PySum(ys), FromInt(Len(ys)))

\* RollingMean taking the sum of the window instead of its mean
RollingMean_Sum(xs, w) ==
    [i \in 1..Len(xs) |-> PySum(Present(SubSeq(xs, IF i - w + 1 < 1 THEN 1 ELSE i - w + 1, i)))]

\* rolling(window=w, min_periods=1).mean(): entry i averages the non-NaN values
\* among the last w entries up to i
RollingMean(xs, w) ==
    [i \in 1..Len(xs) |-> NanMean(SubSeq(xs, IF i - w + 1 < 1 THEN 1 ELSE i - w + 1, i))]

DefaultWindow == 7
DefaultDays == 7
DefaultMaxRetries == 3
DefaultRetryDelay == 5
ImprovingAbove == 10
DecliningBelow == 0 - ImprovingAbove

Sentinel(trend) == [trend |-> trend, change_rate |-> Zero, direction |-> "neutral"]

\* DirectionOf with inclusive thresholds
DirectionOf_Inclusive(change_rate) ==
    IF ~RLt(change_rate, FromInt(ImprovingAbove)) /\ ~IsNaN(change_rate) THEN "improving"
    ELSE IF ~RGt(change_rate, FromInt(DecliningBelow)) /\ ~IsNaN(change_rate) THEN "declining"
    ELSE "stable"

DirectionOf(change_rate) ==
    IF RGt(change_rate, FromInt(ImprovingAbove)) THEN "improving"
    ELSE IF RLt(change_rate, FromInt(DecliningBelow)) THEN "declining"
    ELSE "stable"

RecentAvg(ma, w) ==
    IF Len(ma) >= w THEN NanMean(SubSeq(ma, Len(ma) - w + 1, Len(ma))) ELSE NanMean(ma)

\* PreviousAvg averaging everything before the last w entries
PreviousAvg_AllBefore(ma, w) ==
    IF Len(ma) >= w * 2 THEN NanMean(SubSeq(ma, 1, Len(ma) - w)) ELSE ma[1]

PreviousAvg(ma, w) ==
    IF Len(ma) >= w * 2 THEN NanMean(SubSeq(ma, Len(ma) - 2 * w + 1, Len(ma) - w)) ELSE ma[1]

\* ChangeRate dividing by the baseline itself instead of its absolute value
ChangeRate_Signed(recent_avg, previous_avg) ==
    IF RNe(previous_avg, Zero)
    THEN RMul(RDiv(RSub(recent_avg, previous_avg), previous_avg), FromInt(100))
    ELSE Zero

ChangeRate(recent_avg, previous_avg) ==
    IF RNe(previous_avg, Zero)
    THEN RMul(RDiv(RSub(recent_avg, previous_avg), RAbs(previous_avg)), FromInt(100))
    ELSE Zero

\* calculate_trends testing for the score column before the length
calculate_trends_ScoresFirst(d, window_size) ==
    IF "average_score" \notin Columns(d) THEN Sentinel("no_scores")
    ELSE IF Len(d) < window_size THEN Sentinel("insufficient_data")
    ELSE LET ma == RollingMean(ColumnList(d, "average_score"), window_size)
             change_rate == ChangeRate(RecentAvg(ma, window_size), PreviousAvg(ma, window_size))
         IN  [ trend |-> "calculated",
               change_rate |-> Round(change_rate, 100),
               direction |-> DirectionOf(change_rate),
               recent_average |-> Round(RecentAvg(ma, window_size), 1000),
               previous_average |-> Round(PreviousAvg(ma, window_size), 1000) ]

\* window_size >= 1
calculate_trends(d, window_size) ==
    IF Len(d) < window_size THEN Sentinel("insufficient_data")
    ELSE IF "average_score" \notin Columns(d) THEN Sentinel("no_scores")
    ELSE LET ma == RollingMean(ColumnList(d, "average_score"), window_size)
             recent_avg == RecentAvg(ma, window_size)
             previous_avg == PreviousAvg(ma, window_size)
             change_rate == ChangeRate(recent_avg, previous_avg)
         IN  [ trend |-> "calculated",
               change_rate |-> Round(change_rate, 100),
               direction |-> DirectionOf(change_rate),
               recent_average |-> Round(recent_avg, 1000),
               previous_average |-> Round(previous_avg, 1000) ]

\* --------------------------------------------------- get_summary_statistics
\* the largest k in lo..hi with (2k - 1)^2 <= w, where it holds for lo
RECURSIVE HalfStepsBelow(_, _, _)
HalfStepsBelow(lo, hi, w) ==
    IF lo = hi THEN lo
    ELSE LET mid == (lo + hi + 1) \div 2
         IN  IF (2 * mid - 1) * (2 * mid - 1) * w[2] <= w[1]
             THEN HalfStepsBelow(mid, hi, w)
             ELSE HalfStepsBelow(lo, mid - 1, w)

\* round(sqrt(v), k) with scale = 10^k, for a rational v >= 0
RoundSqrt(v, scale) ==
    LET w == RMul(v, FromInt(4 * scale * scale))
        k == HalfStepsBelow(0, 2 * scale + (w[1] \div w[2]) \div scale, w)
        tie == (2 * k - 1) * (2 * k - 1) * w[2] = w[1]
    IN  Rat(IF k > 0 /\ tie /\ k % 2 = 1 THEN k - 1 ELSE k, scale)

\* pandas Series.std(): the sample (n - 1) deviation of the non-NaN values,
\* NaN when fewer than two are present; rounded to 3 decimals
RECURSIVE SumSquares(_, _)
SumSquares(ys, m) ==
    IF ys = <<>> THEN Zero
    ELSE LET dev == RSub(ys[Len(ys)], m)
         IN  RAdd(SumSquares(SubSeq(ys, 1, Len(ys) - 1), m), RMul(dev, dev))

RoundedStd(xs) ==
    LET ys == Present(xs)
    IN  IF Len(ys) < 2 THEN NaN
        ELSE RoundSqrt(RDiv(SumSquares(ys, NanMean(ys)), FromInt(Len(ys) - 1)), 1000)

\* Series.min() / Series.max() of a column holding at least one value
NanMin(xs) == PyMin(Present(xs))
NanMax(xs) == PyMax(Present(xs))

\* the labels value_counts() reports, each with its count
ValueCounts(d) ==
    LET seen == {d[i].sentiment[1] : i \in {j \in 1..Len(d) : Has(d[j], "sentiment")}}
    IN  [l \in seen |-> CountLabel(d, l)]

\* min()/max() of an object column of str timestamps holding NaN: TypeError
StampColumnRaises(d, ty) ==
    /\ ty = "str"
    /\ "analyzed_at" \in Columns(d)
    /\ \E i \in 1..Len(d) : ~Has(d[i], "analyzed_at")

StampsOf(d) == {d[i].analyzed_at[1] : i \in {j \in 1..Len(d) : Has(d[j], "analyzed_at")}}

get_summary_statistics(d, ty) ==
    IF d = <<>>
    THEN Ok([ total_items |-> 0,
              date_range |-> [start |-> None, end |-> None],
              sentiment_totals |-> [l \in KnownLabels |-> 0],
              score_stats |-> [mean |-> Zero, std |-> Zero, min |-> Zero, max |-> Zero] ])
    ELSE IF StampColumnRaises(d, ty) THEN Raised("TypeError")
    ELSE Ok([ total_items |-> Len(d),
              date_range |->
                  IF "analyzed_at" \in Columns(d)
                  THEN [ start |-> <<CHOOSE t \in StampsOf(d) : \A u \in StampsOf(d) : t <= u>>,
                         end |-> <<CHOOSE t \in StampsOf(d) : \A u \in StampsOf(d) : u <= t>> ]
                  ELSE [start |-> None, end |-> None],
              sentiment_totals |->
                  IF "sentiment" \in Columns(d) THEN ValueCounts(d) ELSE [l \in KnownLabels |-> 0],
              score_stats |->
                  IF "score" \in Columns(d)
                  THEN [ mean |-> Round(NanMean(ColumnList(d, "score")), 1000),
                         std |-> RoundedStd(ColumnList(d, "score")),
                         min |-> Round(NanMin(ColumnList(d, "score")), 1000),
                         max |-> Round(NanMax(ColumnList(d, "score")), 1000) ]
                  ELSE [mean |-> Zero, std |-> Zero, min |-> Zero, max |-> Zero] ])

\* ------------------------------------------------------------ state machine
\* self.aggregation_functions: the keys of the table built by __init__
AggregationFunctions == {"count", "mean", "sum", "min", "max"}

\* the threads that call into one shared DataAggregator
Threads == {"t1", "t2"}
\* data: the list handed to the aggregator; tsType: how its timestamps are
\* held ("datetime" objects, or the ISO "str" that to_dict() produces);
\* call: the operation in progress with its arguments; result: what it gave.
NoCall == [op |-> "none", period |-> "-", date_field |-> "-", window_size |-> 0]
NoResult == [status |-> "none", value |-> <<>>]

\* a thread outside any call
IdleThread == [ pc |-> "idle", call |-> NoCall, given |-> <<>>, todo |-> <<>>,
                overlapped |-> FALSE, result |-> NoResult ]

\* a freshly constructed instance that no thread has entered
NoThreads ==
    /\ aggregation_functions = AggregationFunctions
    /\ threads = [t \in Threads |-> IdleThread]
    /\ aggregated = [t \in Threads |-> <<>>]
    /\ by_source = [t \in Threads |-> <<>>]

NoRequest == [period_type |-> "-", days |-> 0, source |-> None, failed |-> {}]
NoResponse == [status |-> 0, success |-> FALSE, data |-> <<>>]

\* empty tables and no request being served
NoRequests ==
    /\ aggregated_data = {}
    /\ sentiment_results = {}
    /\ utcnow = 0
    /\ request = NoRequest
    /\ response = NoResponse

Hosts == {"a.example", "b.example"}

\* a host whose robots.txt has not been read (a read one is held as
\* <<rules>>), a domain never requested (a requested one holds <<time>>)
Uncached == <<>>
Never == <<>>

\* BaseScraper.__init__ with an empty config
DefaultConfig ==
    [ use_playwright |-> FALSE, respect_robots |-> FALSE, rate_limit_interval |-> 0,
      max_retries |-> DefaultMaxRetries, retry_delay |-> DefaultRetryDelay ]

\* a scraper that has been constructed and not used
NoScraping ==
    /\ config = DefaultConfig
    /\ url_configs = <<>>
    /\ results = NoResult
    /\ robots_txt = [h \in Hosts |-> {}]
    /\ robots_cache = [h \in Hosts |-> Uncached]
    /\ last_request_time = [h \in Hosts |-> Never]
    /\ clock = 0
    /\ tasks = <<>>

JobIds == {"a", "b"}
RunKinds == {"interval", "manual"}

\* no job under an id, self.results_callback = None
NoJob == <<>>
NoCallback == <<>>

\* AsyncIOScheduler(): not running, no shutdown waiting on the event loop, no
\* pending job, an empty job store and no job given a next run time
NewScheduler ==
    [ running |-> FALSE, stopping |-> FALSE, deferred |-> FALSE, pending |-> <<>>,
      jobstore |-> [id \in JobIds |-> NoJob], timed |-> {} ]

\* no run of a job function in progress
IdleRun ==
    [ pc |-> "idle", job |-> NoJob, scrapes |-> 0, results |-> <<>>,
      at_start |-> NoCallback, at_scraped |-> NoCallback, calls |-> <<>>,
      failed |-> "None", raised |-> FALSE, after |-> 0 ]

NoOperation == [op |-> "-", known |-> FALSE, raised |-> "None", began |-> FALSE]

\* ScraperScheduler.__init__
NoScheduling ==
    /\ jobs = [id \in JobIds |-> NoJob]
    /\ scheduler = NewScheduler
    /\ results_callback = NoCallback
    /\ runs = [k \in RunKinds |-> IdleRun]
    /\ last_call = NoOperation
    /\ created = 0
    /\ executions = 0
    /\ failures = 0

\* cleanup_old_data not called
NoCleanup == [status |-> "none", days |-> 0, cutoff |-> 0, error |-> "None", before |-> <<>>]

\* an empty scraped_data table and no cleanup made
NoStorage ==
    /\ scraped_data = {}
    /\ foreign_keys = FALSE
    /\ cleanup = NoCleanup

Periods == {"hourly", "daily", "weekly", "monthly"}
DateFields == {"analyzed_at", "created_at"}
Windows == {1, 2, 3, DefaultWindow}

Seqs(S, n) == UNION {[1..k -> S] : k \in 0..n}

Rec(ts, sc, cf, se, so) ==
    [ analyzed_at |-> ts, score |-> sc, confidence |-> cf, sentiment |-> se,
      source |-> so, average_score |-> Absent ]

\* 0.8 and -0.6
Scores == {<<4, 5>>, <<-3, 5>>}

\* Timestamps are minutes since Monday 00:00 of week 0: <<10>> and <<70>> are
\* 00:10 and 01:10 of that Monday, <<1450>> is 00:10 of the Tuesday and
\* <<10090>> is 00:10 of the Monday after.
\* records that vary in timestamp and score
ScoreRecords == {Rec(ts, sc, Absent, Absent, Absent) :
                    ts \in {<<10>>, <<70>>, <<1450>>, Absent}, sc \in Scores \cup {Absent}}
\* records that vary in score and confidence
ConfidenceRecords == {Rec(<<10>>, sc, cf, Absent, Absent) :
                    sc \in {<<4, 5>>, Absent}, cf \in {<<9, 10>>, <<1, 2>>, Absent}}
\* records that vary in week and label
LabelRecords == {Rec(ts, Absent, Absent, se, Absent) :
                    ts \in {<<10>>, <<10090>>},
                    se \in {<<"positive">>, <<"negative">>, <<"neutral">>, <<"mixed">>, Absent}}
\* records that vary in source and timestamp
SourceRecords == {Rec(ts, Absent, Absent, Absent, so) :
                    ts \in {<<10>>, <<1450>>, Absent},
                    so \in {<<"news">>, <<"unknown">>, <<"">>, Absent}}

\* the three records of the spec's worked example
Scenario == << Rec(<<10>>, <<4, 5>>, <<9, 10>>, <<"positive">>, Absent),
               Rec(<<70>>, <<-3, 5>>, <<7, 10>>, <<"negative">>, Absent),
               Rec(<<1450>>, Zero, <<1, 2>>, <<"neutral">>, Absent) >>

Init ==
    /\ call = NoCall
    /\ result = NoResult
    /\ NoThreads
    /\ NoRequests
    /\ NoScraping
    /\ NoScheduling
    /\ NoStorage
    /\ \/ data \in Seqs(ScoreRecords, MaxLen) /\ tsType = "datetime"
       \/ data \in Seqs(ConfidenceRecords, MaxLen) /\ tsType = "datetime"
       \/ data \in Seqs(LabelRecords, MaxLen) /\ tsType = "datetime"
       \/ data \in Seqs(SourceRecords, MaxLen) /\ tsType \in {"datetime", "str"}
       \/ data = Scenario /\ tsType \in {"datetime", "str"}

Start(op, period, date_field, window_size) ==
    /\ call.op = "none"
    /\ call' = [op |-> op, period |-> period, date_field |-> date_field,
                window_size |-> window_size]
    /\ UNCHANGED <<data, tsType, scheduling, storage, concurrent, api, scraping>>

CallAggregateByPeriod(period, date_field) ==
    /\ Start("aggregate_by_period", period, date_field, 0)
    /\ result' = Ok(aggregate_by_period(data, period, date_field))

CallAggregateBySource ==
    /\ Start("aggregate_by_source", "-", "-", 0)
    /\ result' = aggregate_by_source(data, tsType)

CallSentimentSummary ==
    /\ Start("_get_sentiment_summary", "-", "-", 0)
    /\ result' = Ok(get_sentiment_summary(data))

CallCalculateTrends(window_size) ==
    /\ Start("calculate_trends", "-", "-", window_size)
    /\ result' = Ok(calculate_trends(data, window_size))

CallSummaryStatistics ==
    /\ Start("get_summary_statistics", "-", "-", 0)
    /\ result' = get_summary_statistics(data, tsType)

\* the caller takes the result; the aggregator keeps nothing of the call
Return ==
    /\ call.op # "none"
    /\ call' = NoCall
    /\ result' = NoResult
    /\ UNCHANGED <<data, tsType, scheduling, storage, concurrent, api, scraping>>

Next ==
    \/ \E period \in Periods, date_field \in DateFields :
          CallAggregateByPeriod(period, date_field)
    \/ CallAggregateBySource
    \/ CallSentimentSummary
    \/ \E window_size \in Windows : CallCalculateTrends(window_size)
    \/ CallSummaryStatistics
    \/ Return

Spec == Init /\ [][Next]_vars

\* ---------------------------------------------------- trend specification
Entry(avg) == [EmptyRecord EXCEPT !.average_score = avg]

\* 0, 0.4, 0.44 (+10%), 0.36 (-10%), -0.4
Averages == {Zero, <<2, 5>>, <<11, 25>>, <<9, 25>>, <<-2, 5>>}

SeriesEntries == {Entry(avg) : avg \in Averages \cup {Absent}}

\* series whose change is just beyond a threshold: 0.4 to 0.44001 and to
\* 0.35999, and -0.4 to -0.35999
EdgeSeries == { <<Entry(<<2, 5>>), Entry(<<44001, 100000>>)>>,
                <<Entry(<<2, 5>>), Entry(<<35999, 100000>>)>>,
                <<Entry(<<-2, 5>>), Entry(<<-35999, 100000>>)>> }

\* two default windows of periods that all average 0.5
FlatFortnight == [i \in 1..(2 * DefaultWindow) |-> Entry(<<1, 2>>)]

InitTrend ==
    /\ call = NoCall
    /\ result = NoResult
    /\ tsType = "datetime"
    /\ NoThreads
    /\ NoRequests
    /\ NoScraping
    /\ NoScheduling
    /\ NoStorage
    /\ data \in Seqs(SeriesEntries, MaxSeries) \cup EdgeSeries \cup {FlatFortnight}

NextTrend ==
    \/ \E window_size \in Windows : CallCalculateTrends(window_size)
    \/ Return

SpecTrend == InitTrend /\ [][NextTrend]_vars

\* -------------------------------------------------- summary specification
Item(label) == [EmptyRecord EXCEPT !.sentiment = label]

Items == {Item(label) : label \in
             {<<"positive">>, <<"negative">>, <<"neutral">>, <<"mixed">>, Absent}}

\* p positive items, then n negative, z neutral and u of an unknown label
Bulk(p, n, z, u) ==
    [i \in 1..(p + n + z + u) |->
        IF i <= p THEN Item(<<"positive">>)
        ELSE IF i <= p + n THEN Item(<<"negative">>)
        ELSE IF i <= p + n + z THEN Item(<<"neutral">>)
        ELSE Item(<<"mixed">>)]

BulkItems == { Bulk(191, 191, 286, 1), Bulk(191, 191, 285, 1), Bulk(500, 500, 0, 1),
               Bulk(3336, 3336, 3327, 1), Bulk(333, 333, 334, 0) }

InitSummary ==
    /\ call = NoCall
    /\ result = NoResult
    /\ tsType = "datetime"
    /\ NoThreads
    /\ NoRequests
    /\ NoScraping
    /\ NoScheduling
    /\ NoStorage
    /\ data \in Seqs(Items, MaxItems) \cup BulkItems

NextSummary ==
    \/ CallSentimentSummary
    \/ Return

SpecSummary == InitSummary /\ [][NextSummary]_vars

\* ----------------------------------------------- concurrent specification
\* Two threads call into one shared instance and their steps interleave.  A
\* call to aggregate_by_period takes one step per group of its loop, a call
\* to aggregate_by_source one step per item; the locals `aggregated` and
\* `by_source` of each call are kept per activation.

\* Accumulator with the list held on the instance, shared by every call
Accumulator_Shared(t) == "t1"

\* the activation that owns the locals `aggregated` and `by_source` of the
\* call made by thread t: each call has its own
Accumulator(t) == t

\* records of the worked example, one of them with a source
ConcurrentRecords == { Scenario[1], Scenario[2], [Scenario[3] EXCEPT !.source = <<"news">>] }

ConcurrentPeriods == {"daily", "hourly"}
ConcurrentWindows == {1, DefaultWindow}

InitConcurrent ==
    /\ call = NoCall
    /\ result = NoResult
    /\ NoThreads
    /\ NoRequests
    /\ NoScraping
    /\ NoScheduling
    /\ NoStorage
    /\ tsType = "datetime"
    /\ data \in Seqs(ConcurrentRecords, MaxShared)

\* some other thread is inside a call
Overlaps(t) == \E u \in Threads \ {t} : threads[u].pc = "running"

\* thread t enters an operation; aggregate_by_period returns at once on an
\* empty list or a missing column, otherwise it starts with `aggregated = []`
\* and the groups to visit; aggregate_by_source starts with an empty
\* `by_source` and the items to visit
Begin(t, op, period, date_field, window_size) ==
    LET early == op = "aggregate_by_period"
                    /\ (data = <<>> \/ date_field \notin Columns(data))
        c == [op |-> op, period |-> period, date_field |-> date_field,
              window_size |-> window_size]
    IN  /\ threads[t].pc = "idle"
        /\ threads' = [threads EXCEPT ![t] =
               [ pc |-> IF early THEN "done" ELSE "running",
                 call |-> c,
                 given |-> data,
                 todo |-> IF early THEN <<>>
                          ELSE IF op = "aggregate_by_period"
                               THEN GroupKeys(data, period, date_field)
                          ELSE IF op = "aggregate_by_source" THEN [i \in 1..Len(data) |-> i]
                          ELSE <<>>,
                 overlapped |-> Overlaps(t),
                 result |-> IF early THEN Ok(<<>>) ELSE NoResult ]]
        /\ aggregated' = IF op = "aggregate_by_period" /\ ~early
                          THEN [aggregated EXCEPT ![Accumulator(t)] = <<>>]
                          ELSE aggregated
        /\ by_source' = IF op = "aggregate_by_source"
                         THEN [by_source EXCEPT ![Accumulator(t)] = <<>>]
                         ELSE by_source
        /\ UNCHANGED <<data, tsType, scheduling, storage, call, result, api, scraping, aggregation_functions>>

\* one pass of the loop over df.groupby('period')
StepGroup(t) ==
    LET c == threads[t].call
        key == Head(threads[t].todo)
    IN  /\ threads[t].pc = "running"
        /\ c.op = "aggregate_by_period"
        /\ threads[t].todo # <<>>
        /\ aggregated' = [aggregated EXCEPT ![Accumulator(t)] =
               Append(@, AggregateGroup(GroupRows(data, c.period, c.date_field, key),
                                        key, Columns(data)))]
        /\ threads' = [threads EXCEPT ![t].todo = Tail(@),
                                      ![t].overlapped = @ \/ Overlaps(t)]
        /\ UNCHANGED <<data, tsType, scheduling, storage, call, result, api, scraping, aggregation_functions, by_source>>

\* one pass of the loop `for item in data`
StepItem(t) ==
    /\ threads[t].pc = "running"
    /\ threads[t].call.op = "aggregate_by_source"
    /\ threads[t].todo # <<>>
    /\ by_source' = [by_source EXCEPT ![Accumulator(t)] = Append(@, data[Head(threads[t].todo)])]
    /\ threads' = [threads EXCEPT ![t].todo = Tail(@),
                                  ![t].overlapped = @ \/ Overlaps(t)]
    /\ UNCHANGED <<data, tsType, scheduling, storage, call, result, api, scraping, aggregation_functions, aggregated>>

\* the rest of the call, up to its return
Finish(t) ==
    LET c == threads[t].call
    IN  /\ threads[t].pc = "running"
        /\ threads[t].todo = <<>>
        /\ threads' = [threads EXCEPT
               ![t].pc = "done",
               ![t].overlapped = @ \/ Overlaps(t),
               ![t].result =
                   IF c.op = "aggregate_by_period"
                   THEN Ok(SortedByPeriod(aggregated[Accumulator(t)]))
                   ELSE IF c.op = "aggregate_by_source"
                   THEN aggregate_by_source(by_source[Accumulator(t)], tsType)
                   ELSE IF c.op = "_get_sentiment_summary" THEN Ok(get_sentiment_summary(data))
                   ELSE IF c.op = "calculate_trends"
                   THEN Ok(calculate_trends(data, c.window_size))
                   ELSE get_summary_statistics(data, tsType)]
        /\ UNCHANGED <<data, tsType, scheduling, storage, call, result, api, scraping, aggregation_functions, aggregated, by_source>>

\* the caller takes the result
Collect(t) ==
    /\ threads[t].pc = "done"
    /\ threads' = [threads EXCEPT ![t] = IdleThread]
    /\ UNCHANGED <<data, tsType, scheduling, storage, call, result, api, scraping, aggregation_functions, aggregated, by_source>>

NextConcurrent ==
    \E t \in Threads :
        \/ \E period \in ConcurrentPeriods : Begin(t, "aggregate_by_period", period, "analyzed_at", 0)
        \/ Begin(t, "aggregate_by_source", "-", "-", 0)
        \/ Begin(t, "_get_sentiment_summary", "-", "-", 0)
        \/ \E window_size \in ConcurrentWindows : Begin(t, "calculate_trends", "-", "-", window_size)
        \/ Begin(t, "get_summary_statistics", "-", "-", 0)
        \/ StepGroup(t)
        \/ StepItem(t)
        \/ Finish(t)
        \/ Collect(t)

SpecConcurrent == InitConcurrent /\ [][NextConcurrent]_vars

\* ------------------------------------------- GET /api/aggregated/<period_type>
Max(a, b) == IF a >= b THEN a ELSE b

\* datetime.isoformat() / date.isoformat()
IsoFormat(t) == <<"iso", t>>

\* the lists a query can return: the rows of S ordered by a column, ascending
\* (sign 1) or descending (sign -1), rows of equal key in any order
Orderings(S, column, sign) ==
    {rows \in [1..Cardinality(S) -> S] :
        /\ \A i, j \in 1..Cardinality(S) : i # j => rows[i] # rows[j]
        /\ \A i, j \in 1..Cardinality(S) :
              i < j => sign * rows[i][column] <= sign * rows[j][column]}

\* `if source_name:`
Named(source) == source \notin {None, <<"">>}

\* AggregatedData.to_dict()
AggregatedToDict(r) == [r EXCEPT !.period_start = IsoFormat(@)]

\* SentimentResult.to_dict(): the row's columns, the timestamp as an ISO
\* string; the source belongs to the scraped page and is not among them
SentimentToDict(r) == Rec(<<r.analyzed_at>>, r.score, r.confidence, r.sentiment, Absent)

\* DatabaseManager.get_aggregated_data: the lists the query can give, [] when
\* it raises
get_aggregated_data(table, now, period_type, days, source_name, raises) ==
    LET since == now - days * MinutesPerDay
        found == {r \in table :
                     /\ r.period_type = period_type
                     /\ r.period_start >= since
                     /\ Named(source_name) => r.source_name = source_name}
    IN  IF raises THEN {<<>>}
        ELSE {[i \in DOMAIN rows |-> AggregatedToDict(rows[i])] :
                 rows \in Orderings(found, "period_start", 1)}

\* DatabaseManager.get_recent_sentiments: newest first, [] when it raises
get_recent_sentiments(table, now, hours, source_name, raises) ==
    LET since == now - hours * MinutesPerHour
        found == {r \in table :
                     /\ r.analyzed_at >= since
                     /\ Named(source_name) => r.source_name = source_name}
    IN  IF raises THEN {<<>>}
        ELSE {[i \in DOMAIN rows |-> SentimentToDict(rows[i])] :
                 rows \in Orderings(found, "analyzed_at", 0 - 1)}

\* the loop that turns each bucket's period into a string
NormalizePeriods(buckets) ==
    [i \in DOMAIN buckets |-> [buckets[i] EXCEPT !.period = IsoFormat(@)]]

\* Served answering with the stored rows followed by the computed buckets
Served_Mixed(persisted, computed) == persisted \o computed

\* `if not data: ... data = aggregated`
Served(persisted, computed) == IF persisted = <<>> THEN computed ELSE persisted

\* stored aggregate rows: a day of all sources and of "news", starting Monday
\* and Tuesday, and the hour before the request
AggregatedRow(id, period_type, period_start, source_name) ==
    [ id |-> id, period_type |-> period_type, period_start |-> period_start,
      source_name |-> source_name, total_items |-> id ]

\* the request arrives on Wednesday 00:00
RequestTime == 2 * MinutesPerDay

AggregatedPool ==
    { AggregatedRow(1, "daily", 0, <<"news">>),
      AggregatedRow(2, "daily", MinutesPerDay, None),
      AggregatedRow(3, "daily", MinutesPerDay, <<"news">>),
      AggregatedRow(4, "hourly", RequestTime - MinutesPerHour, <<"news">>) }

SentimentRow(id, analyzed_at, sentiment, score, source_name) ==
    [ id |-> id, analyzed_at |-> analyzed_at, sentiment |-> sentiment, score |-> score,
      confidence |-> <<9, 10>>, source_name |-> source_name ]

SentimentPool ==
    { SentimentRow(1, 10, <<"positive">>, <<4, 5>>, <<"news">>),
      SentimentRow(2, 70, <<"negative">>, <<-3, 5>>, <<"blog">>),
      SentimentRow(3, MinutesPerDay + 10, <<"neutral">>, Zero, <<"news">>),
      SentimentRow(4, RequestTime - 30, <<"positive">>, <<4, 5>>, <<"news">>) }

RequestDays == {0, 1, DefaultDays}
RequestSources == {None, <<"">>, <<"news">>}
RequestPeriods == {"daily", "hourly"}
Queries == {"aggregated", "sentiments"}

InitApi ==
    /\ call = NoCall
    /\ result = NoResult
    /\ data = <<>>
    /\ tsType = "str"
    /\ NoThreads
    /\ NoScraping
    /\ NoScheduling
    /\ NoStorage
    /\ aggregated_data \in {S \in SUBSET AggregatedPool : Cardinality(S) <= MaxRows}
    /\ sentiment_results \in {S \in SUBSET SentimentPool : Cardinality(S) <= MaxRows}
    /\ utcnow = RequestTime
    /\ request = NoRequest
    /\ response = NoResponse

\* the route handler, entered once the caller is authorized; `failed` are the
\* queries that raise inside the database manager
GetAggregatedData(period_type, days, source, failed) ==
    /\ request = NoRequest
    /\ request' = [period_type |-> period_type, days |-> days, source |-> source,
                   failed |-> failed]
    /\ \E persisted \in get_aggregated_data(aggregated_data, utcnow, period_type, days,
                                            source, "aggregated" \in failed) :
       \E sentiments \in get_recent_sentiments(sentiment_results, utcnow, Max(days * 24, 1),
                                               source, "sentiments" \in failed) :
          response' =
              [ status |-> 200,
                success |-> TRUE,
                data |-> Served(persisted,
                                NormalizePeriods(aggregate_by_period(sentiments, period_type,
                                                                     "analyzed_at"))) ]
    /\ UNCHANGED <<data, tsType, scheduling, storage, call, result, concurrent, scraping, aggregated_data,
                   sentiment_results, utcnow>>

\* the response is sent
Respond ==
    /\ request # NoRequest
    /\ request' = NoRequest
    /\ response' = NoResponse
    /\ UNCHANGED <<data, tsType, scheduling, storage, call, result, concurrent, scraping, aggregated_data,
                   sentiment_results, utcnow>>

NextApi ==
    \/ \E period_type \in RequestPeriods, days \in RequestDays, source \in RequestSources,
          failed \in SUBSET Queries : GetAggregatedData(period_type, days, source, failed)
    \/ Respond

SpecApi == InitApi /\ [][NextApi]_vars

\* ------------------------------------------------------------- WebScraper
\* One WebScraper runs scrape_multiple over a list of URLs: one coroutine per
\* URL, started in list order.  With use_playwright a coroutine yields while
\* it sleeps in _async_rate_limit and while the browser works; without it
\* scrape_with_requests blocks, so a coroutine runs from start to end.
Url(host, path) == [host |-> host, path |-> path]

Urls == {Url("a.example", "/x"), Url("a.example", "/y"), Url("b.example", "/x")}

\* the paths each host's robots.txt disallows
RobotsFiles == { [h \in Hosts |-> {}],
                 [h \in Hosts |-> IF h = "a.example" THEN {"/x"} ELSE {}] }

\* rp.read() returns, or raises because the host cannot be reached
RobotsReads == {"ok", "unreachable"}

\* the scraper of the /api/scrape route, its requests-based twin, and two
\* scrapers without robots check and rate limit
Configs ==
    { [ use_playwright |-> TRUE, respect_robots |-> TRUE, rate_limit_interval |-> 2,
        max_retries |-> DefaultMaxRetries, retry_delay |-> DefaultRetryDelay ],
      [ use_playwright |-> FALSE, respect_robots |-> TRUE, rate_limit_interval |-> 2,
        max_retries |-> DefaultMaxRetries, retry_delay |-> 1 ],
      [DefaultConfig EXCEPT !.use_playwright = TRUE],
      [DefaultConfig EXCEPT !.max_retries = 1],
      [DefaultConfig EXCEPT !.max_retries = 0] }

\* what requests.get gives at each attempt (no config of the model retries
\* more often than the default)
RequestOutcomes == [1..DefaultMaxRetries -> {"ok", "RequestException"}]

\* the dicts scrape returns (url, metadata and scraped_at left out)
NoOutcome == [success |-> FALSE, error |-> "-", texts |-> <<>>]
Success == [success |-> TRUE, error |-> "None", texts |-> <<"text">>]
Failure(e) == [success |-> FALSE, error |-> e, texts |-> <<>>]

\* an exception that leaves scrape
Escaped(e) == [escaped |-> e]

\* scrape without its try/except: a failure raises out of it
scrape_Unguarded(fetched) ==
    IF fetched = "body" THEN Success
    ELSE IF fetched = "None" THEN Escaped("TypeError")
    ELSE Escaped(fetched)

\* WebScraper.scrape, given what the fetch gave: the page's html ("body"),
\* None (parse_html(None) raises TypeError), or the name of the exception it
\* raised
scrape(fetched) ==
    IF fetched = "body" THEN Success
    ELSE IF fetched = "None" THEN Failure("TypeError")
    ELSE Failure(fetched)

\* an entry of the list handed to scrape_multiple, with or without a url
UrlConfig(url) == [url |-> <<url>>]
NoUrlConfig == [url |-> Absent]

\* a coroutine made by scrape_multiple and not yet run; html is what its fetch
\* gave
NewTask(url) ==
    [ url |-> url, pc |-> "new", wake |-> 0, trace |-> <<>>, html |-> "-",
      result |-> NoOutcome ]

\* the call returned by scrape_multiple is in progress
Gathering == [status |-> "gathering", value |-> <<>>]

InitScraper ==
    /\ call = NoCall
    /\ result = NoResult
    /\ NoScheduling
    /\ NoStorage
    /\ data = <<>>
    /\ tsType = "datetime"
    /\ NoThreads
    /\ NoRequests
    /\ config \in Configs
    /\ robots_txt \in RobotsFiles
    /\ robots_cache = [h \in Hosts |-> Uncached]
    /\ last_request_time = [h \in Hosts |-> Never]
    /\ clock = 0
    /\ url_configs \in Seqs({UrlConfig(u) : u \in Urls} \cup {NoUrlConfig}, MaxUrls)
    /\ results = NoResult
    /\ tasks = <<>>

\* the rules is_allowed consults: the cached ones, else those just read, or
\* none when reading raised (rp.parse(""))
RobotsRules(cache, txt, host, read) ==
    IF cache[host] # Uncached THEN cache[host][1]
    ELSE IF read = "ok" THEN txt[host]
    ELSE {}

\* is_allowed letting every URL through
is_allowed_Always(rules, url) == TRUE

\* rp.can_fetch(user_agent, url)
is_allowed(rules, url) == url.path \notin rules

\* _rate_limit / _async_rate_limit: whether the caller has to sleep
MustWait(cfg, now, last) ==
    /\ cfg.rate_limit_interval > 0
    /\ last # Never
    /\ now - last[1] < cfg.rate_limit_interval

\* the time at which _rate_limit returns
ReleaseTime(cfg, now, last) ==
    IF MustWait(cfg, now, last) THEN now + (cfg.rate_limit_interval - (now - last[1])) ELSE now

\* the retry loop of scrape_with_requests from the given attempt (1-based) on:
\* each attempt is released by _rate_limit, makes its request and gets a
\* response or a RequestException; the loop sleeps ("retry") before the next
\* attempt, and falls off its end when there is no attempt to make
RECURSIVE RequestAttempts(_, _, _, _, _, _)
RequestAttempts(cfg, outcomes, attempt, now, last, trace) ==
    LET released == ReleaseTime(cfg, now, last)
        stamped == IF cfg.rate_limit_interval > 0 THEN <<released>> ELSE last
        sofar == trace \o (IF released > now THEN << <<"wait", released>> >> ELSE <<>>)
                       \o << <<"release", released>>, <<"request", released>> >>
    IN  IF attempt > cfg.max_retries
        THEN [now |-> now, last |-> last, trace |-> trace, html |-> "None"]
        ELSE IF outcomes[attempt] = "ok"
        THEN [now |-> released, last |-> stamped,
              trace |-> Append(sofar, <<"response", released>>), html |-> "body"]
        ELSE IF attempt < cfg.max_retries
        THEN RequestAttempts(cfg, outcomes, attempt + 1, released + cfg.retry_delay, stamped,
                             sofar \o << <<"RequestException", released>>,
                                         <<"retry", released + cfg.retry_delay>> >>)
        ELSE [now |-> released, last |-> stamped,
              trace |-> Append(sofar, <<"RequestException", released>>),
              html |-> "RequestException"]

\* scrape_multiple up to its await: one coroutine per entry that has a url, in
\* the order of the list
ScrapeMultiple ==
    LET HasUrl(url_config) == url_config.url # Absent
        with_url == SelectSeq(url_configs, HasUrl)
    IN  /\ results = NoResult
        /\ tasks' = [i \in DOMAIN with_url |-> NewTask(with_url[i].url[1])]
        /\ results' = Gathering
        /\ UNCHANGED <<data, tsType, scheduling, storage, call, result, concurrent, api, config, url_configs,
                       robots_txt, robots_cache, last_request_time, clock>>

\* asyncio.gather returns the coroutines' results in the order of the
\* coroutines once all are done, or raises the first exception that left one
Gather ==
    LET escaped == {i \in DOMAIN tasks : "escaped" \in DOMAIN tasks[i].result}
    IN  /\ results = Gathering
        /\ \A i \in DOMAIN tasks : tasks[i].pc = "done"
        /\ results' =
              IF escaped # {}
              THEN Raised(tasks[CHOOSE i \in escaped : \A j \in escaped : i <= j].result.escaped)
              ELSE Ok([i \in DOMAIN tasks |->
                         [ url |-> tasks[i].url,
                           texts |-> tasks[i].result.texts,
                           success |-> tasks[i].result.success,
                           error |-> tasks[i].result.error ]])
        /\ UNCHANGED <<data, tsType, scheduling, storage, call, result, concurrent, api, config, url_configs,
                       robots_txt, robots_cache, last_request_time, clock, tasks>>

\* coroutine i is the next to start
NextToStart(i) ==
    /\ i \in DOMAIN tasks
    /\ tasks[i].pc = "new"
    /\ \A j \in 1..(i - 1) : tasks[j].pc # "new"

\* robots.txt is read only by a scraper that respects it, once per host
ReadsRobots(host) == config.respect_robots /\ robots_cache[host] = Uncached

\* scrape -> scrape_with_playwright, up to its first await: the robots check,
\* then the first half of _async_rate_limit
ScrapeWithPlaywright(i, read) ==
    LET url == tasks[i].url
        rules == RobotsRules(robots_cache, robots_txt, url.host, read)
        last == last_request_time[url.host]
    IN  /\ config.use_playwright
        /\ NextToStart(i)
        /\ ~ReadsRobots(url.host) => read = "ok"
        /\ robots_cache' = IF config.respect_robots
                            THEN [robots_cache EXCEPT ![url.host] = <<rules>>]
                            ELSE robots_cache
        /\ IF config.respect_robots /\ ~is_allowed(rules, url)
           THEN /\ tasks' = [tasks EXCEPT ![i].pc = "done",
                                          ![i].html = "PermissionError",
                                          ![i].result = scrape("PermissionError")]
                /\ UNCHANGED last_request_time
           ELSE IF MustWait(config, clock, last)
           THEN /\ tasks' = [tasks EXCEPT ![i].pc = "sleeping",
                                          ![i].wake = ReleaseTime(config, clock, last),
                                          ![i].trace = Append(@, <<"wait", ReleaseTime(config, clock, last)>>)]
                /\ UNCHANGED last_request_time
           ELSE /\ tasks' = [tasks EXCEPT ![i].pc = "launch",
                                          ![i].trace = Append(@, <<"release", clock>>)]
                /\ last_request_time' = IF config.rate_limit_interval > 0
                                         THEN [last_request_time EXCEPT ![url.host] = <<clock>>]
                                         ELSE last_request_time
        /\ UNCHANGED <<data, tsType, scheduling, storage, call, result, concurrent, api, config, url_configs, results, robots_txt, clock>>

\* asyncio.sleep is over: the second half of _async_rate_limit
Wake(i) ==
    /\ i \in DOMAIN tasks
    /\ tasks[i].pc = "sleeping"
    /\ clock >= tasks[i].wake
    /\ last_request_time' = [last_request_time EXCEPT ![tasks[i].url.host] = <<clock>>]
    /\ tasks' = [tasks EXCEPT ![i].pc = "launch",
                              ![i].trace = Append(@, <<"release", clock>>)]
    /\ UNCHANGED <<data, tsType, scheduling, storage, call, result, concurrent, api, config, url_configs, results, robots_txt,
                   robots_cache, clock>>

\* the browser is launched and the page loaded, or an exception ends the
\* attempt; scrape turns either into a result (the launch is logged with the
\* time of the release it follows)
Launch(i, outcome) ==
    /\ i \in DOMAIN tasks
    /\ tasks[i].pc = "launch"
    /\ tasks' = [tasks EXCEPT ![i].pc = "done",
                              ![i].trace = Append(@, <<"launch", @[Len(@)][2]>>),
                              ![i].html = IF outcome = "ok" THEN "body" ELSE "Error",
                              ![i].result = scrape(IF outcome = "ok" THEN "body" ELSE "Error")]
    /\ UNCHANGED <<data, tsType, scheduling, storage, call, result, concurrent, api, config, url_configs, results, robots_txt,
                   robots_cache, last_request_time, clock>>

\* scrape -> scrape_with_requests, from start to end: it never awaits
ScrapeWithRequests(i, read, outcomes) ==
    LET url == tasks[i].url
        rules == RobotsRules(robots_cache, robots_txt, url.host, read)
        run == RequestAttempts(config, outcomes, 1, clock, last_request_time[url.host],
                               tasks[i].trace)
    IN  /\ ~config.use_playwright
        /\ NextToStart(i)
        /\ ~ReadsRobots(url.host) => read = "ok"
        /\ robots_cache' = IF config.respect_robots
                            THEN [robots_cache EXCEPT ![url.host] = <<rules>>]
                            ELSE robots_cache
        /\ IF config.respect_robots /\ ~is_allowed(rules, url)
           THEN /\ tasks' = [tasks EXCEPT ![i].pc = "done",
                                          ![i].html = "PermissionError",
                                          ![i].result = scrape("PermissionError")]
                /\ UNCHANGED <<last_request_time, clock>>
           ELSE /\ tasks' = [tasks EXCEPT ![i].pc = "done",
                                          ![i].trace = run.trace,
                                          ![i].html = run.html,
                                          ![i].result = scrape(run.html)]
                /\ last_request_time' = [last_request_time EXCEPT ![url.host] = run.last]
                /\ clock' = run.now
        /\ UNCHANGED <<data, tsType, scheduling, storage, call, result, concurrent, api, config, url_configs, results, robots_txt>>

\* time passes while a coroutine sleeps
Tick ==
    /\ clock < MaxTime
    /\ \E i \in DOMAIN tasks : tasks[i].pc = "sleeping"
    /\ clock' = clock + 1
    /\ UNCHANGED <<data, tsType, scheduling, storage, call, result, concurrent, api, config, url_configs, results, robots_txt,
                   robots_cache, last_request_time, tasks>>

NextScraper ==
    \/ ScrapeMultiple
    \/ Gather
    \/ \E i \in 1..MaxUrls, read \in RobotsReads : ScrapeWithPlaywright(i, read)
    \/ \E i \in 1..MaxUrls : Wake(i)
    \/ \E i \in 1..MaxUrls, outcome \in {"ok", "error"} : Launch(i, outcome)
    \/ \E i \in 1..MaxUrls, read \in RobotsReads, outcomes \in RequestOutcomes :
          ScrapeWithRequests(i, read, outcomes)
    \/ Tick

SpecScraper == InitScraper /\ [][NextScraper]_vars

\* ------------------------------------------------------- ScraperScheduler
\* One ScraperScheduler over an AsyncIOScheduler with its default in-memory
\* job store.  A job is named by its id and by the number of the
\* add_scraping_job call that made it: its job function closes over that
\* call's job_id, scraper and urls.
MaxJobs == 3
MaxRuns == 2

Job(id, n) == [id |-> id, n |-> n]

Callbacks == {<<"process_scraping_results">>}

\* scheduler.add_job(job_function, trigger, id=job_id, replace_existing=True):
\* a scheduler that is not running keeps the job as pending, a running one
\* stores it in place of a stored job of the same id and gives it its next
\* run time
add_job(sch, job) ==
    IF sch.running
    THEN [sch EXCEPT !.jobstore[job.id] = <<job>>, !.timed = @ \cup {job.n}]
    ELSE [sch EXCEPT !.pending = Append(@, job)]

\* the position of the first pending job of the id
FirstPending(sch, id) ==
    CHOOSE i \in DOMAIN sch.pending :
        sch.pending[i].id = id /\ \A j \in 1..(i - 1) : sch.pending[j].id # id

\* scheduler.remove_job finds the job: among the pending jobs of a scheduler
\* that is not running, in the job store of a running one
CanRemove(sch, id) ==
    IF sch.running THEN sch.jobstore[id] # NoJob
    ELSE \E i \in DOMAIN sch.pending : sch.pending[i].id = id

\* scheduler.remove_job(job_id) when it finds the job (JobLookupError
\* otherwise): the first pending job of the id, or the stored one
remove_job(sch, id) ==
    IF sch.running THEN [sch EXCEPT !.jobstore[id] = NoJob]
    ELSE [sch EXCEPT !.pending = SubSeq(@, 1, FirstPending(sch, id) - 1)
                                   \o SubSeq(@, FirstPending(sch, id) + 1, Len(@))]

\* the pending jobs are stored in the order they were added, each in place of
\* a stored job of its id
RECURSIVE StorePending(_, _)
StorePending(jobstore, pending) ==
    IF pending = <<>> THEN jobstore
    ELSE StorePending([jobstore EXCEPT ![Head(pending).id] = <<Head(pending)>>], Tail(pending))

\* scheduler.start()
start(sch) ==
    [sch EXCEPT !.running = TRUE,
                !.jobstore = StorePending(@, sch.pending),
                !.timed = @ \cup {sch.pending[i].n : i \in DOMAIN sch.pending},
                !.pending = <<>>]

\* BaseScheduler.shutdown(): the scheduler stops and the in-memory job store
\* drops its jobs
shutdown(sch) ==
    [sch EXCEPT !.running = FALSE, !.stopping = FALSE,
                !.jobstore = [id \in JobIds |-> NoJob]]

\* the ids of self.jobs
JobKeys == {id \in JobIds : jobs[id] # NoJob}

\* get_job_status(job_id); job.next_run_time is an attribute a job gets when
\* the scheduler stores it (AttributeError before)
get_job_status(id) ==
    IF jobs[id] = NoJob THEN Ok([id |-> id, next_run |-> "None", active |-> FALSE])
    ELSE IF jobs[id][1].n \notin scheduler.timed THEN Raised("AttributeError")
    ELSE Ok([id |-> id, next_run |-> "next_run_time", active |-> TRUE])

\* list_jobs(): the statuses of the keys of self.jobs
list_jobs ==
    IF \E id \in JobKeys : get_job_status(id).status = "raised" THEN Raised("AttributeError")
    ELSE Ok({get_job_status(id).value : id \in JobKeys})

\* what the last call of remove_job or run_job_now did, while no other method
\* has been called since
Called(op, known, raised, began) ==
    [op |-> op, known |-> known, raised |-> raised, began |-> began]

\* the scheduler library is built either with a shutdown() that acts at once
\* or with one that is handed to the event loop
InitScheduler ==
    /\ call = NoCall
    /\ result = NoResult
    /\ data = <<>>
    /\ tsType = "datetime"
    /\ NoThreads
    /\ NoRequests
    /\ NoScraping
    /\ NoStorage
    /\ jobs = [id \in JobIds |-> NoJob]
    /\ scheduler \in {[NewScheduler EXCEPT !.deferred = d] : d \in BOOLEAN}
    /\ results_callback = NoCallback
    /\ runs = [k \in RunKinds |-> IdleRun]
    /\ last_call = NoOperation
    /\ created = 0
    /\ executions = 0
    /\ failures = 0

SetResultsCallback(callback) ==
    /\ results_callback' = callback
    /\ last_call' = NoOperation
    /\ UNCHANGED <<data, tsType, call, result, concurrent, api, scraping, storage,
                   jobs, scheduler, runs, created, executions, failures>>

AddScrapingJob(job_id) ==
    /\ created < MaxJobs
    /\ created' = created + 1
    /\ scheduler' = add_job(scheduler, Job(job_id, created + 1))
    /\ jobs' = [jobs EXCEPT ![job_id] = <<Job(job_id, created + 1)>>]
    /\ last_call' = NoOperation
    /\ UNCHANGED <<data, tsType, call, result, concurrent, api, scraping, storage,
                   results_callback, runs, executions, failures>>

\* remove_job: a JobLookupError of the scheduler leaves it before the del
RemoveJob(job_id) ==
    /\ IF jobs[job_id] = NoJob
       THEN /\ UNCHANGED <<jobs, scheduler>>
            /\ last_call' = Called("remove_job", FALSE, "None", FALSE)
       ELSE IF CanRemove(scheduler, job_id)
       THEN /\ scheduler' = remove_job(scheduler, job_id)
            /\ jobs' = [jobs EXCEPT ![job_id] = NoJob]
            /\ last_call' = Called("remove_job", TRUE, "None", FALSE)
       ELSE /\ UNCHANGED <<jobs, scheduler>>
            /\ last_call' = Called("remove_job", TRUE, "JobLookupError", FALSE)
    /\ UNCHANGED <<data, tsType, call, result, concurrent, api, scraping, storage,
                   results_callback, runs, created, executions, failures>>

StartScheduler ==
    /\ scheduler' = IF ~scheduler.running THEN start(scheduler) ELSE scheduler
    /\ last_call' = NoOperation
    /\ UNCHANGED <<data, tsType, call, result, concurrent, api, scraping, storage,
                   jobs, results_callback, runs, created, executions, failures>>

StopScheduler ==
    /\ scheduler' = IF ~scheduler.running THEN scheduler
                    ELSE IF scheduler.deferred THEN [scheduler EXCEPT !.stopping = TRUE]
                    ELSE shutdown(scheduler)
    /\ last_call' = NoOperation
    /\ UNCHANGED <<data, tsType, call, result, concurrent, api, scraping, storage,
                   jobs, results_callback, runs, created, executions, failures>>

\* the event loop runs a shutdown that was handed to it
Shutdown ==
    /\ scheduler.stopping
    /\ scheduler' = shutdown(scheduler)
    /\ UNCHANGED <<data, tsType, call, result, concurrent, api, scraping, storage,
                   jobs, results_callback, runs, last_call, created, executions, failures>>

\* job_function reading self.results_callback when the run starts
ReadCallback_AtStart(at_start, now) == at_start

\* `if self.results_callback:` is read once scrape_multiple has returned
ReadCallback(at_start, now) == now

\* a run of the job's function begins: it awaits scraper.scrape_multiple(urls)
BeginRun(kind, job) ==
    /\ runs[kind].pc \in {"idle", "done"}
    /\ executions < MaxRuns
    /\ executions' = executions + 1
    /\ runs' = [runs EXCEPT ![kind] =
           [IdleRun EXCEPT !.pc = "scraping", !.job = <<job>>, !.scrapes = 1,
                           !.at_start = results_callback, !.after = failures]]

\* the interval trigger of a stored job fires in a running scheduler
RunByTrigger(job_id) ==
    /\ scheduler.running
    /\ scheduler.jobstore[job_id] # NoJob
    /\ BeginRun("interval", scheduler.jobstore[job_id][1])
    /\ UNCHANGED <<data, tsType, call, result, concurrent, api, scraping, storage,
                   jobs, scheduler, results_callback, last_call, created, failures>>

\* run_job_now up to the await of the job's function (a run that has returned
\* leaves its record until the next run); an unknown id is logged
RunJobNow(job_id) ==
    /\ runs["manual"].pc \in {"idle", "done"}
    /\ IF jobs[job_id] # NoJob
       THEN BeginRun("manual", jobs[job_id][1])
       ELSE UNCHANGED <<runs, executions>>
    /\ last_call' = Called("run_job_now", jobs[job_id] # NoJob, "None", runs' # runs)
    /\ UNCHANGED <<data, tsType, call, result, concurrent, api, scraping, storage,
                   jobs, scheduler, results_callback, created, failures>>

\* scrape_multiple returns its results or raises; with results and a callback
\* set, the callback is called with the job's id and the results; an
\* exception is caught and logged
ScrapeReturns(kind, scraped) ==
    LET run == runs[kind]
        found == <<"results", run.job[1]>>
        callback == ReadCallback(run.at_start, results_callback)
    IN  /\ run.pc = "scraping"
        /\ IF scraped = "raised"
           THEN /\ runs' = [runs EXCEPT ![kind].pc = "done", ![kind].failed = "scrape_multiple"]
                /\ failures' = failures + 1
           ELSE /\ runs' = [runs EXCEPT
                       ![kind].pc = IF callback # NoCallback THEN "callback" ELSE "done",
                       ![kind].results = found,
                       ![kind].at_scraped = results_callback,
                       ![kind].calls =
                           IF callback # NoCallback
                           THEN << [callback |-> callback[1], job_id |-> run.job[1].id,
                                    results |-> found] >>
                           ELSE <<>>]
                /\ UNCHANGED failures
        /\ UNCHANGED <<data, tsType, call, result, concurrent, api, scraping, storage,
                       jobs, scheduler, results_callback, last_call, created, executions>>

\* the callback returns or raises; an exception is caught and logged
CallbackReturns(kind, how) ==
    /\ runs[kind].pc = "callback"
    /\ runs' = [runs EXCEPT ![kind].pc = "done", ![kind].failed = IF how = "raised" THEN "results_callback" ELSE "None"]
    /\ failures' = IF how = "raised" THEN failures + 1 ELSE failures
    /\ UNCHANGED <<data, tsType, call, result, concurrent, api, scraping, storage,
                   jobs, scheduler, results_callback, last_call, created, executions>>

\* the registry of jobs: adding, removing, starting and stopping
NextScheduler ==
    \/ \E job_id \in JobIds : AddScrapingJob(job_id)
    \/ \E job_id \in JobIds : RemoveJob(job_id)
    \/ StartScheduler
    \/ StopScheduler
    \/ Shutdown

SpecScheduler == InitScheduler /\ [][NextScheduler]_vars

\* the runs of the jobs of an application that sets its callback, adds its
\* jobs and starts the scheduler (setup_scheduled_jobs), in any order
InitJobs ==
    /\ InitScheduler
    /\ scheduler = NewScheduler

NextJobs ==
    \/ \E callback \in Callbacks \cup {NoCallback} : SetResultsCallback(callback)
    \/ \E job_id \in JobIds : AddScrapingJob(job_id)
    \/ StartScheduler
    \/ \E job_id \in JobIds : RunByTrigger(job_id)
    \/ \E job_id \in JobIds : RunJobNow(job_id)
    \/ \E kind \in RunKinds, scraped \in {"results", "raised"} : ScrapeReturns(kind, scraped)
    \/ \E kind \in RunKinds, how \in {"returned", "raised"} : CallbackReturns(kind, how)

SpecJobs == InitJobs /\ [][NextJobs]_vars

\* ------------------------------------------------------- cleanup_old_data
\* The three tables of the database, a row by its key and the columns the
\* cleanup reads; times are whole days, utcnow is the latest of them.
MaxDay == 2

Days == 0..MaxDay
PageIds == {1, 2}
ResultIds == {1, 2}
AggregateIds == {1}

\* the statement of cleanup_old_data at which the database fails
Statements == {"sentiment_results", "scraped_data", "aggregated_data", "commit"}

Tables(sentiments, pages, aggregates) ==
    [sentiment_results |-> sentiments, scraped_data |-> pages, aggregated_data |-> aggregates]

\* query(SentimentResult).filter(analyzed_at < cutoff).delete()
DeleteResults(tables, cutoff) ==
    [tables EXCEPT !.sentiment_results = {r \in @ : ~(r.analyzed_at < cutoff)}]

\* query(ScrapedData).filter(scraped_at < cutoff).delete(): a bulk delete,
\* which leaves the results of the deleted pages alone
DeletePages(tables, cutoff) ==
    [tables EXCEPT !.scraped_data = {p \in @ : ~(p.scraped_at < cutoff)}]

\* query(AggregatedData).filter(created_at < cutoff).delete()
DeleteAggregates(tables, cutoff) ==
    [tables EXCEPT !.aggregated_data = {a \in @ : ~(a.created_at < cutoff)}]

\* the results that a database enforcing the foreign key refuses to orphan
Referring(tables, cutoff) ==
    {r \in tables.sentiment_results :
        \E p \in tables.scraped_data : p.id = r.scraped_data_id /\ p.scraped_at < cutoff}

\* cleanup_old_data(days): the three deletions and the commit, or the
\* rollback after the first exception: the failure of the database at a
\* statement, or the IntegrityError of a database that enforces
\* sentiment_results.scraped_data_id
cleanup_old_data(tables, now, days, enforced, failure) ==
    LET cutoff == now - days
        sentiments == DeleteResults(tables, cutoff)
        pages == DeletePages(sentiments, cutoff)
        aggregates == DeleteAggregates(pages, cutoff)
    IN  IF failure = "sentiment_results"
        THEN [status |-> "rolled back", error |-> "OperationalError", tables |-> tables]
        ELSE IF failure = "scraped_data"
        THEN [status |-> "rolled back", error |-> "OperationalError", tables |-> tables]
        ELSE IF enforced /\ Referring(sentiments, cutoff) # {}
        THEN [status |-> "rolled back", error |-> "IntegrityError", tables |-> tables]
        ELSE IF failure \in {"aggregated_data", "commit"}
        THEN [status |-> "rolled back", error |-> "OperationalError", tables |-> tables]
        ELSE [status |-> "committed", error |-> "None", tables |-> aggregates]

\* rows saved by save_scraped_data, save_sentiment_results and
\* save_aggregated_data: keys are unique, a result belongs to a stored page
\* and was analyzed no earlier than the page was scraped
StoredPages ==
    {pages \in SUBSET [id : PageIds, scraped_at : Days] :
        \A p, q \in pages : p.id = q.id => p = q}

StoredResults(pages) ==
    {sentiments \in SUBSET [id : ResultIds, scraped_data_id : PageIds, analyzed_at : Days] :
        /\ \A r, s \in sentiments : r.id = s.id => r = s
        /\ \A r \in sentiments : \E p \in pages :
               p.id = r.scraped_data_id /\ r.analyzed_at >= p.scraped_at}

StoredAggregates ==
    {aggregates \in SUBSET [id : AggregateIds, created_at : Days] :
        \A a, b \in aggregates : a.id = b.id => a = b}

\* the database enforces foreign keys or, as SQLite does unless told
\* otherwise, does not
InitCleanup ==
    /\ call = NoCall
    /\ result = NoResult
    /\ data = <<>>
    /\ tsType = "datetime"
    /\ NoThreads
    /\ NoScraping
    /\ NoScheduling
    /\ request = NoRequest
    /\ response = NoResponse
    /\ utcnow = MaxDay
    /\ foreign_keys \in BOOLEAN
    /\ scraped_data \in StoredPages
    /\ sentiment_results \in StoredResults(scraped_data)
    /\ aggregated_data \in StoredAggregates
    /\ cleanup = NoCleanup

Cleanup(days, failure) ==
    LET before == Tables(sentiment_results, scraped_data, aggregated_data)
        done == cleanup_old_data(before, utcnow, days, foreign_keys, failure)
    IN  /\ sentiment_results' = done.tables.sentiment_results
        /\ scraped_data' = done.tables.scraped_data
        /\ aggregated_data' = done.tables.aggregated_data
        /\ cleanup' = [status |-> done.status, days |-> days, cutoff |-> utcnow - days,
                       error |-> done.error, before |-> <<before>>]
        /\ UNCHANGED <<data, tsType, call, result, concurrent, scraping, scheduling,
                       utcnow, request, response, foreign_keys>>

NextCleanup ==
    \E days \in Days, failure \in Statements \cup {"None"} : Cleanup(days, failure)

SpecCleanup == InitCleanup /\ [][NextCleanup]_vars

\* ------------------------------------------------------------------ claims
RECURSIVE TotalItems(_)
TotalItems(buckets) ==
    IF buckets = <<>> THEN 0
    ELSE TotalItems(SubSeq(buckets, 1, Len(buckets) - 1)) + buckets[Len(buckets)].total_items

RECURSIVE TotalItemsBySource(_)
TotalItemsBySource(summaries) ==
    IF DOMAIN summaries = {} THEN 0
    ELSE LET s == CHOOSE x \in DOMAIN summaries : TRUE
         IN  summaries[s].total_items
             + TotalItemsBySource([x \in DOMAIN summaries \ {s} |-> summaries[x]])

\* C1: for a non-empty list, the total_items of the buckets of
\* aggregate_by_period (when some record carries the time field) and of the
\* sources of aggregate_by_source add up to the number of input records.
C1_PartitionComplete ==
    /\ (call.op = "aggregate_by_period" /\ call.date_field \in Columns(data))
          => TotalItems(result.value) = Len(data)
    /\ (call.op = "aggregate_by_source" /\ data # <<>>)
          => result.status = "ok" /\ TotalItemsBySource(result.value) = Len(data)

\* C2: the list returned by aggregate_by_period is strictly ascending by period.
C2_StrictlyAscending ==
    call.op = "aggregate_by_period" =>
        \A i, j \in 1..Len(result.value) :
            i < j => result.value[i].period < result.value[j].period

\* three buckets from records given in descending time order
C2_Witness ==
    /\ call.op = "aggregate_by_period"
    /\ Len(result.value) = 3
    /\ Len(data) = 3
    /\ \A i \in 1..3 : Has(data[i], "analyzed_at")
    /\ data[1].analyzed_at[1] > data[2].analyzed_at[1]
    /\ data[2].analyzed_at[1] > data[3].analyzed_at[1]

\* C3: on an empty list aggregate_by_period returns [], aggregate_by_source
\* returns {}, calculate_trends with the default window returns the
\* insufficient_data sentinel, get_summary_statistics returns the all-zero
\* summary with a null date range, the sentiment summary returns exactly the
\* four-field default, and none of them raises.
C3_EmptyInput ==
    (data = <<>> /\ call.op # "none") =>
        /\ result.status = "ok"
        /\ call.op = "aggregate_by_period" => result.value = <<>>
        /\ call.op = "aggregate_by_source" => DOMAIN result.value = {}
        /\ (call.op = "calculate_trends" /\ call.window_size = DefaultWindow) =>
              result.value = [ trend |-> "insufficient_data", change_rate |-> Zero,
                               direction |-> "neutral" ]
        /\ call.op = "get_summary_statistics" =>
              result.value =
                  [ total_items |-> 0,
                    date_range |-> [start |-> None, end |-> None],
                    sentiment_totals |-> [positive |-> 0, negative |-> 0, neutral |-> 0],
                    score_stats |-> [mean |-> Zero, std |-> Zero, min |-> Zero, max |-> Zero] ]
        /\ call.op = "_get_sentiment_summary" =>
              result.value = [positive |-> 0, negative |-> 0, neutral |-> 0, dominant |-> "neutral"]

C3_Witness ==
    /\ data = <<>>
    /\ call.op = "_get_sentiment_summary"
    /\ result.status = "ok"
    /\ DOMAIN result.value = {"positive", "negative", "neutral", "dominant"}

\* C4: no operation raises on records that lack any of their fields.
C4_NeverRaises == result.status # "raised"

\* the values of field f that the rows carry, in order
RECURSIVE PresentOf(_, _)
PresentOf(rows, f) ==
    IF rows = <<>> THEN <<>>
    ELSE LET front == PresentOf(SubSeq(rows, 1, Len(rows) - 1), f)
         IN  IF Has(rows[Len(rows)], f) THEN Append(front, rows[Len(rows)][f]) ELSE front

MeanOrZero(xs) == IF xs = <<>> THEN Zero ELSE RDiv(PySum(xs), FromInt(Len(xs)))
Least(xs) == IF xs = <<>> THEN None
             ELSE CHOOSE x \in {xs[i] : i \in 1..Len(xs)} : \A i \in 1..Len(xs) : ~RLt(xs[i], x)
Greatest(xs) == IF xs = <<>> THEN None
                ELSE CHOOSE x \in {xs[i] : i \in 1..Len(xs)} : \A i \in 1..Len(xs) : ~RGt(xs[i], x)

\* C5: in every bucket average_score and average_confidence are the means of
\* the values the bucket's records carry (0 when none carries one), and
\* min_score and max_score the extrema of the scores carried (null when none).
C5_AveragesOverPresent ==
    call.op = "aggregate_by_period" =>
        \A i \in 1..Len(result.value) :
            LET b == result.value[i]
                rows == GroupRows(data, call.period, call.date_field, b.period)
            IN  /\ b.average_score = MeanOrZero(PresentOf(rows, "score"))
                /\ b.average_confidence = MeanOrZero(PresentOf(rows, "confidence"))
                /\ b.min_score = Least(PresentOf(rows, "score"))
                /\ b.max_score = Greatest(PresentOf(rows, "score"))

\* C6: calculate_trends returns the insufficient_data sentinel whenever the
\* input has fewer than window_size entries, the no_scores sentinel whenever
\* it has at least window_size entries none of which carries average_score,
\* and a calculated trend in every other case.
C6_TrendSentinels ==
    call.op = "calculate_trends" =>
        LET short == Len(data) < call.window_size
            carried == \E i \in 1..Len(data) : Has(data[i], "average_score")
        IN  /\ short => result.value = [ trend |-> "insufficient_data", change_rate |-> Zero,
                                          direction |-> "neutral" ]
            /\ (~short /\ ~carried) => result.value = [ trend |-> "no_scores", change_rate |-> Zero,
                                                        direction |-> "neutral" ]
            /\ (~short /\ carried) => result.value.trend = "calculated"

\* too few entries, none of which carries a score: the length decides
C6_Witness ==
    /\ call.op = "calculate_trends"
    /\ data # <<>>
    /\ Len(data) < call.window_size
    /\ \A i \in 1..Len(data) : ~Has(data[i], "average_score")
    /\ result.value.trend = "insufficient_data"

\* the change rate of the call in progress, before rounding
ComputedChange ==
    LET ma == RollingMean(ColumnList(data, "average_score"), call.window_size)
    IN  ChangeRate(RecentAvg(ma, call.window_size), PreviousAvg(ma, call.window_size))

Calculated == call.op = "calculate_trends" /\ result.value.trend = "calculated"

DirectionByThreshold ==
    /\ result.value.direction = "improving" <=> RGt(ComputedChange, FromInt(10))
    /\ result.value.direction = "declining" <=> RLt(ComputedChange, FromInt(0 - 10))
    /\ result.value.direction = "stable" <=>
          (~RGt(ComputedChange, FromInt(10)) /\ ~RLt(ComputedChange, FromInt(0 - 10)))

\* C7 as stated: the direction follows the computed change rate with strict
\* thresholds, and a reported change_rate of 10.0 or -10.0 goes with "stable".
C7_ThresholdOriginal ==
    Calculated =>
        /\ DirectionByThreshold
        /\ result.value.change_rate \in {FromInt(10), FromInt(0 - 10)}
              => result.value.direction = "stable"

\* C7 (amended): the direction follows the computed change rate with strict
\* thresholds, so a computed rate of exactly 10 or -10 is "stable"; a reported
\* 10.0 goes with "stable" or "improving", a reported -10.0 with "stable" or
\* "declining".
C7_ThresholdAmended ==
    Calculated =>
        /\ DirectionByThreshold
        /\ ComputedChange \in {FromInt(10), FromInt(0 - 10)} => result.value.direction = "stable"
        /\ result.value.change_rate = FromInt(10)
              => result.value.direction \in {"stable", "improving"}
        /\ result.value.change_rate = FromInt(0 - 10)
              => result.value.direction \in {"stable", "declining"}

\* a computed change of exactly 10 per cent
C7_Witness ==
    /\ Calculated
    /\ ComputedChange = FromInt(10)
    /\ result.value.direction = "stable"

PctSum == RAdd(RAdd(result.value.positive_pct, result.value.negative_pct),
               result.value.neutral_pct)

AllKnown == \A i \in 1..Len(data) : LabelOf(data[i]) \in KnownLabels
SomeKnown == \E i \in 1..Len(data) : LabelOf(data[i]) \in KnownLabels
Summarized == call.op = "_get_sentiment_summary" /\ data # <<>> /\ SomeKnown

\* C8 as stated: the three percentages add up to within 0.1 of 100 when every
\* label is known, and to less than 100 when some label is unknown.
C8_PercentageOriginal ==
    Summarized =>
        /\ AllKnown => ~RGt(RAbs(RSub(PctSum, FromInt(100))), <<1, 10>>)
        /\ ~AllKnown => RLt(PctSum, FromInt(100))

\* C8 (amended): within 0.1 of 100 when every label is known; when some label
\* is unknown, at most 100.1, and less than 100 for up to 668 items.
C8_PercentageAmended ==
    Summarized =>
        /\ AllKnown => ~RGt(RAbs(RSub(PctSum, FromInt(100))), <<1, 10>>)
        /\ ~AllKnown => /\ ~RGt(PctSum, <<1001, 10>>)
                        /\ Len(data) <= 668 => RLt(PctSum, FromInt(100))

\* 668 items, one of them of an unknown label
C8_Witness ==
    /\ Summarized
    /\ ~AllKnown
    /\ Len(data) = 668
    /\ RLt(PctSum, FromInt(100))

\* C9: aggregate_by_period returns an empty list whenever no record carries
\* the named time field, for every granularity, as it does for an empty list.
C9_MissingTimeFieldEmpty ==
    (call.op = "aggregate_by_period"
        /\ \A i \in 1..Len(data) : ~Has(data[i], call.date_field))
    => result = Ok(<<>>)

\* records with scores and no timestamp, bucketed by week
C9_Witness ==
    /\ call.op = "aggregate_by_period"
    /\ call.period = "weekly"
    /\ call.date_field = "analyzed_at"
    /\ Len(data) >= 2
    /\ \A i \in 1..Len(data) : ~Has(data[i], "analyzed_at") /\ Has(data[i], "score")
    /\ result = Ok(<<>>)

\* C10: for a granularity other than hourly, daily and weekly,
\* aggregate_by_period returns what it returns for daily, and does not raise.
C10_UnknownGranularityIsDaily ==
    (call.op = "aggregate_by_period" /\ call.period \notin {"hourly", "daily", "weekly"})
    => result = Ok(aggregate_by_period(data, "daily", call.date_field))

\* two records of one day and different hours, under an unknown granularity
C10_Witness ==
    /\ call.op = "aggregate_by_period"
    /\ call.period = "monthly"
    /\ Len(data) = 2
    /\ Has(data[1], "analyzed_at") /\ Has(data[2], "analyzed_at")
    /\ data[1].analyzed_at # data[2].analyzed_at
    /\ Len(result.value) = 1
    /\ result.value[1].total_items = 2

\* the records whose source is absent, empty or literally "unknown"
Unsourced(d) ==
    LET NoSource(item) == ~Has(item, "source") \/ item.source[1] \in {"", "unknown"}
    IN  SelectSeq(d, NoSource)

\* C11: aggregate_by_source has no empty-string source key, and the records
\* whose source is absent or empty are counted under "unknown" together with
\* those whose source is literally "unknown".
C11_SourceDefaulting ==
    (call.op = "aggregate_by_source" /\ result.status = "ok") =>
        /\ "" \notin DOMAIN result.value
        /\ Unsourced(data) # <<>> =>
              /\ "unknown" \in DOMAIN result.value
              /\ result.value["unknown"].total_items = Len(Unsourced(data))

\* C12: get_summary_statistics reports mean, std, min and max as defined
\* numbers: all four are 0 for an empty input, std is 0 for a single record,
\* and for more records std is the sample (n - 1) deviation of the scores.
C12_StdDefined ==
    (call.op = "get_summary_statistics" /\ result.status = "ok") =>
        LET stats == result.value.score_stats
            scores == PresentOf(data, "score")
        IN  /\ \A k \in {"mean", "std", "min", "max"} : ~IsNaN(stats[k])
            /\ Len(data) = 0 => \A k \in {"mean", "std", "min", "max"} : stats[k] = Zero
            /\ Len(data) = 1 => stats.std = Zero
            /\ (Len(data) > 1 /\ Len(scores) = Len(data)) =>
                  stats.std = RoundSqrt(RDiv(SumSquares(scores, MeanOrZero(scores)),
                                             FromInt(Len(scores) - 1)), 1000)

\* what the call c gives when it runs alone on the list d
Alone(c, d) ==
    IF c.op = "aggregate_by_period" THEN Ok(aggregate_by_period(d, c.period, c.date_field))
    ELSE IF c.op = "aggregate_by_source" THEN aggregate_by_source(d, tsType)
    ELSE IF c.op = "_get_sentiment_summary" THEN Ok(get_sentiment_summary(d))
    ELSE IF c.op = "calculate_trends" THEN Ok(calculate_trends(d, c.window_size))
    ELSE get_summary_statistics(d, tsType)

\* C13: across every interleaving of two threads' calls on one instance the
\* table of reduction functions is as constructed, the caller's list is as it
\* was handed in, and every call returns what it returns when run alone on
\* its arguments.
C13_Stateless ==
    /\ aggregation_functions = AggregationFunctions
    /\ \A t \in Threads :
          /\ threads[t].pc # "idle" => threads[t].given = data
          /\ threads[t].pc = "done" => threads[t].result = Alone(threads[t].call, threads[t].given)

\* both threads have returned two buckets from calls that ran interleaved
C13_Witness ==
    \A t \in Threads :
        /\ threads[t].pc = "done"
        /\ threads[t].overlapped
        /\ threads[t].call.op = "aggregate_by_period"
        /\ Len(threads[t].result.value) = 2

\* every entry carries the same average_score
Flat == /\ data # <<>>
        /\ \A i \in 1..Len(data) :
              Has(data[i], "average_score") /\ data[i].average_score = data[1].average_score

\* C14: for a series of at least window_size periods that all carry the same
\* average_score, calculate_trends returns trend "calculated", change_rate 0
\* and direction "stable".
C14_FlatStable ==
    (call.op = "calculate_trends" /\ Flat /\ Len(data) >= call.window_size) =>
        /\ result.value.trend = "calculated"
        /\ result.value.change_rate = Zero
        /\ result.value.direction = "stable"

\* 14 periods of 0.5 under the default window
C14_Witness ==
    /\ call.op = "calculate_trends"
    /\ call.window_size = DefaultWindow
    /\ Len(data) = 2 * DefaultWindow
    /\ Flat
    /\ data[1].average_score = <<1, 2>>
    /\ result.value.trend = "calculated"
    /\ result.value.direction = "stable"

\* records i and j of the list carry timestamps of one calendar day, one
\* Monday-started week or one clock hour
SamePeriod(i, j) ==
    LET ti == data[i][call.date_field][1]
        tj == data[j][call.date_field][1]
    IN  IF call.period = "weekly" THEN ti \div MinutesPerWeek = tj \div MinutesPerWeek
        ELSE IF call.period = "hourly" THEN ti \div MinutesPerHour = tj \div MinutesPerHour
        ELSE ti \div MinutesPerDay = tj \div MinutesPerDay

\* C15: under aggregate_by_period every timestamped record falls in the
\* bucket whose period is its truncated timestamp, two records share a bucket
\* exactly when they share the day (week, hour), and each bucket is what the
\* aggregation gives on its own records alone; the worked example gives
\* buckets of 2 and 1 items, distributions {1,1,0} and {0,0,1}, averages 0.1
\* and 0.0.
C15_BucketMembership ==
    (call.op = "aggregate_by_period" /\ call.date_field \in Columns(data)) =>
        LET bs == result.value
            dated == {i \in 1..Len(data) : Has(data[i], call.date_field)}
            Home(i) == {k \in 1..Len(bs) :
                           bs[k].period = PeriodOf(call.period, data[i][call.date_field][1])}
        IN  /\ \A i \in dated : Cardinality(Home(i)) = 1
            /\ \A i, j \in dated : Home(i) = Home(j) <=> SamePeriod(i, j)
            /\ \A k \in 1..Len(bs) :
                  /\ bs[k].total_items = Cardinality({i \in dated : k \in Home(i)})
                  /\ <<bs[k]>> = aggregate_by_period(
                                     GroupRows(data, call.period, call.date_field, bs[k].period),
                                     call.period, call.date_field)
            /\ (data = Scenario /\ call.period = "daily" /\ call.date_field = "analyzed_at") =>
                  /\ Len(bs) = 2
                  /\ bs[1].total_items = 2 /\ bs[2].total_items = 1
                  /\ bs[1].sentiment_distribution = [positive |-> 1, negative |-> 1, neutral |-> 0]
                  /\ bs[2].sentiment_distribution = [positive |-> 0, negative |-> 0, neutral |-> 1]
                  /\ bs[1].average_score = <<1, 10>> /\ bs[2].average_score = Zero

\* the stored rows the request asks for, and the sentiment rows of its window
WantedRows ==
    {r \in aggregated_data :
        /\ r.period_type = request.period_type
        /\ r.period_start >= utcnow - request.days * MinutesPerDay
        /\ Named(request.source) => r.source_name = request.source}

RecentRows ==
    {r \in sentiment_results :
        /\ r.analyzed_at >= utcnow - Max(request.days * 24, 1) * MinutesPerHour
        /\ Named(request.source) => r.source_name = request.source}

\* the response lists exactly the stored rows S, by ascending period start
IsPersisted(S) ==
    /\ Len(response.data) = Cardinality(S)
    /\ {response.data[i] : i \in 1..Len(response.data)} = {AggregatedToDict(r) : r \in S}
    /\ \A i, j \in 1..Len(response.data) :
          i < j => response.data[i].period_start[2] <= response.data[j].period_start[2]

\* the response is aggregate_by_period of the sentiment rows S
IsComputed(S) ==
    \E rows \in Orderings(S, "id", 1) :
           response.data = NormalizePeriods(aggregate_by_period(
                           [i \in DOMAIN rows |-> SentimentToDict(rows[i])],
                           request.period_type, "analyzed_at"))

\* every entry of the response is a stored row, or every entry is a bucket
Unmixed ==
    \/ \A i \in 1..Len(response.data) : "id" \in DOMAIN response.data[i]
    \/ \A i \in 1..Len(response.data) : "sentiment_distribution" \in DOMAIN response.data[i]

Fetched(t) == t.trace # <<>>

\* the coroutine was turned away by the robots check
TurnedAway(t) == t.pc = "done" /\ t.trace = <<>> /\ t.result = Failure("PermissionError")

\* C17 as stated: with respect_robots, a started scrape of a URL that the
\* host's robots.txt disallows ends with PermissionError reported as success
\* False, with no rate-limit wait, request, browser launch or retry.
C17_RobotsOriginal ==
    \A i \in DOMAIN tasks :
        (config.respect_robots /\ tasks[i].pc # "new"
            /\ tasks[i].url.path \in robots_txt[tasks[i].url.host])
        => TurnedAway(tasks[i])

\* C17 (amended): with respect_robots, a started scrape of a URL disallowed by
\* the rules the scraper holds for the host (robots.txt as read on first use,
\* or no rule at all when reading it raised) ends with PermissionError
\* reported as success False, with no rate-limit wait, request, browser
\* launch or retry; the held rules are robots.txt whenever it could be read.
C17_RobotsAmended ==
    \A i \in DOMAIN tasks :
        LET host == tasks[i].url.host
        IN  /\ (config.respect_robots /\ tasks[i].pc # "new"
                   /\ tasks[i].url.path \in robots_cache[host][1])
               => TurnedAway(tasks[i])
            /\ (config.respect_robots /\ Fetched(tasks[i]))
               => /\ robots_cache[host][1] \in {robots_txt[host], {}}
                  /\ tasks[i].url.path \notin robots_cache[host][1]

\* a disallowed URL is turned away while another URL of the host is fetched
C17_Witness ==
    \E i, j \in DOMAIN tasks :
        /\ config.respect_robots
        /\ tasks[i].url.host = tasks[j].url.host
        /\ tasks[i].url.path \in robots_txt[tasks[i].url.host]
        /\ TurnedAway(tasks[i])
        /\ tasks[j].pc = "done" /\ tasks[j].result = Success

\* the requests released so far: <<coroutine, position in its trace>>
Releases ==
    UNION { {<<i, k>> : k \in {n \in DOMAIN tasks[i].trace : tasks[i].trace[n][1] = "release"}} :
            i \in DOMAIN tasks }

ReleasedAt(e) == tasks[e[1]].trace[e[2]][2]

\* C18: with rate_limit_interval > 0, any two requests that one scraper
\* releases to the same domain are at least rate_limit_interval apart,
\* whether its coroutines run concurrently or one after another.
C18_RateLimitSpacing ==
    config.rate_limit_interval > 0 =>
        \A e, f \in Releases :
            (e # f /\ tasks[e[1]].url.host = tasks[f[1]].url.host)
            => Abs(ReleasedAt(e) - ReleasedAt(f)) >= config.rate_limit_interval

\* the moving-average column of the call in progress
MovingAverage == RollingMean(ColumnList(data, "average_score"), call.window_size)

\* C19: in a calculated trend over n entries with window w, recent_average is
\* the mean of the moving-average values of the last w entries when n >= 2w,
\* and of all n entries when w <= n < 2w.
C19_RecentWindow ==
    Calculated =>
        LET n == Len(data)
            w == call.window_size
        IN  /\ n >= 2 * w => result.value.recent_average
                               = Round(NanMean(SubSeq(MovingAverage, n - w + 1, n)), 1000)
            /\ (w <= n /\ n < 2 * w) => result.value.recent_average
                                          = Round(NanMean(MovingAverage), 1000)

\* C20: in a calculated trend over n entries with window w, previous_average
\* is the mean of the moving-average values of the w entries just before the
\* last w when n >= 2w, and the first moving-average value, which is the first
\* entry's average_score, when w <= n < 2w.
C20_BaselineWindow ==
    Calculated =>
        LET n == Len(data)
            w == call.window_size
        IN  /\ n >= 2 * w => result.value.previous_average
                               = Round(NanMean(SubSeq(MovingAverage, n - 2 * w + 1, n - w)), 1000)
            /\ (w <= n /\ n < 2 * w) =>
                  /\ result.value.previous_average = Round(MovingAverage[1], 1000)
                  /\ Has(data[1], "average_score") => MovingAverage[1] = data[1].average_score

\* four entries under window 2 whose two halves average differently
C20_Witness ==
    /\ Calculated
    /\ call.window_size = 2
    /\ Len(data) = 4
    /\ \A i \in 1..4 : Has(data[i], "average_score")
    /\ data[1].average_score # data[2].average_score
    /\ result.value.previous_average # result.value.recent_average
    /\ result.value.previous_average
          = Round(RDiv(RAdd(MovingAverage[1], MovingAverage[2]), FromInt(2)), 1000)

\* the recent and the baseline average of the call in progress, unrounded
Recent == RecentAvg(MovingAverage, call.window_size)
Baseline == PreviousAvg(MovingAverage, call.window_size)

Sign(x) == IF x[1] > 0 THEN 1 ELSE IF x[1] < 0 THEN 0 - 1 ELSE 0

\* C21: in a calculated trend with a baseline other than 0 the change rate is
\* (recent_avg - previous_avg) * 100 / |previous_avg| (reported rounded to 2
\* decimals), so it never has the sign opposite to recent_avg - previous_avg
\* and the direction follows that sign even for a negative baseline; with a
\* baseline of 0 the change rate is 0 and the direction "stable".
C21_ChangeRate ==
    Calculated =>
        /\ Baseline # Zero =>
              result.value.change_rate
                 = Round(RDiv(RMul(RSub(Recent, Baseline), FromInt(100)), RAbs(Baseline)), 100)
        /\ (Baseline # Zero /\ ~IsNaN(Baseline) /\ ~IsNaN(Recent)) =>
              /\ Sign(ComputedChange) = Sign(RSub(Recent, Baseline))
              /\ Sign(result.value.change_rate) \in {0, Sign(RSub(Recent, Baseline))}
              /\ result.value.direction = "improving" => RGt(Recent, Baseline)
              /\ result.value.direction = "declining" => RLt(Recent, Baseline)
        /\ Baseline = Zero =>
              /\ result.value.change_rate = Zero
              /\ result.value.direction = "stable"

\* a rise from a negative baseline is reported as a positive change
C21_Witness ==
    /\ Calculated
    /\ ~IsNaN(Recent)
    /\ RLt(Baseline, Zero)
    /\ RGt(Recent, Baseline)
    /\ RGt(result.value.change_rate, Zero)
    /\ result.value.direction = "improving"

\* a zero baseline under a recent average other than 0
C21_ZeroBaseline ==
    /\ Calculated
    /\ Baseline = Zero
    /\ RNe(Recent, Zero)
    /\ result.value.direction = "stable"

\* the number of rows whose sentiment is exactly the label
RECURSIVE Carrying(_, _)
Carrying(rows, label) ==
    IF rows = <<>> THEN 0
    ELSE Carrying(Tail(rows), label) + (IF Head(rows).sentiment = <<label>> THEN 1 ELSE 0)

\* C22: in every bucket each of the counts positive, negative and neutral is
\* the number of the bucket's records carrying exactly that label, so a record
\* with an absent or unrecognized label adds to none and the three counts add
\* up to at most total_items, to total_items exactly when every record of the
\* bucket carries one of the three labels.
C22_Distribution ==
    call.op = "aggregate_by_period" =>
        \A k \in 1..Len(result.value) :
            LET b == result.value[k]
                rows == GroupRows(data, call.period, call.date_field, b.period)
                dist == b.sentiment_distribution
                counted == dist.positive + dist.negative + dist.neutral
            IN  /\ DOMAIN dist = KnownLabels
                /\ \A l \in KnownLabels : dist[l] = Carrying(rows, l)
                /\ counted <= b.total_items
                /\ counted = b.total_items
                      <=> \A i \in 1..Len(rows) :
                             \E l \in KnownLabels : rows[i].sentiment = <<l>>

\* a bucket of a positive record, one of an unknown label and one without
C22_Witness ==
    /\ call.op = "aggregate_by_period"
    /\ Len(result.value) = 1
    /\ result.value[1].total_items = 3
    /\ result.value[1].sentiment_distribution = [positive |-> 1, negative |-> 0, neutral |-> 0]
    /\ \E i \in 1..3 : data[i].sentiment = <<"mixed">>
    /\ \E i \in 1..3 : data[i].sentiment = Absent

\* C23: for a non-empty sentiment summary (a record without a label is read
\* as "neutral"), dominant is one of the labels read, known or not, no label
\* occurs more often than it, and every label that occurs as often occurs
\* first at a later position of the input.
C23_Dominant ==
    (call.op = "_get_sentiment_summary" /\ data # <<>>) =>
        LET Read(i) == IF data[i].sentiment = Absent THEN "neutral" ELSE data[i].sentiment[1]
            labels == {Read(i) : i \in 1..Len(data)}
            Occurrences(l) == {i \in 1..Len(data) : Read(i) = l}
            First(l) == CHOOSE i \in Occurrences(l) : \A j \in Occurrences(l) : i <= j
            d == result.value.dominant
        IN  /\ d \in labels
            /\ \A l \in labels : Cardinality(Occurrences(l)) <= Cardinality(Occurrences(d))
            /\ \A l \in labels \ {d} :
                  Cardinality(Occurrences(l)) = Cardinality(Occurrences(d)) => First(d) < First(l)

\* an unknown label ties with two known ones and comes first
C23_Witness ==
    /\ call.op = "_get_sentiment_summary"
    /\ Len(data) = 5
    /\ data[1].sentiment = <<"mixed">>
    /\ data[2].sentiment = <<"positive">>
    /\ Count(data, "mixed") = 2
    /\ Count(data, "positive") = 2
    /\ result.value.dominant = "mixed"

\* C24: aggregate_by_source gives for every source a last_updated that is the
\* latest analysis timestamp among the partition's records that carry one, a
\* record without a timestamp never being the latest while another carries
\* one, and the minimum timestamp (not null) when none carries one.
C24_LastUpdated ==
    (call.op = "aggregate_by_source" /\ data # <<>>) =>
        /\ result.status = "ok"
        /\ \A s \in DOMAIN result.value :
              LET carried == {data[i].analyzed_at[1] :
                                 i \in {j \in 1..Len(data) :
                                           SourceOf(data[j]) = s /\ Has(data[j], "analyzed_at")}}
                  last == result.value[s].last_updated
              IN  /\ carried = {} => last = DatetimeMin
                  /\ carried # {} => /\ last[1] \in carried
                                     /\ \A t \in carried : t <= last[1]

\* the orders in which a list of n records can be given
Orders(n) == {p \in [1..n -> 1..n] : \A i, j \in 1..n : i # j => p[i] # p[j]}
Permuted(d, p) == [i \in 1..Len(d) |-> d[p[i]]]

\* the order-independent part of a bucket list
Shape(buckets) ==
    [k \in DOMAIN buckets |->
        [ period |-> buckets[k].period,
          total_items |-> buckets[k].total_items,
          sentiment_distribution |-> buckets[k].sentiment_distribution,
          min_score |-> buckets[k].min_score,
          max_score |-> buckets[k].max_score ]]

\* two labels of the source's labelled records share the highest count
TiedAtTop(d, s) ==
    LET items == WithSentiment(SourceItems(d, s))
        labels == {LabelOf(items[i]) : i \in 1..Len(items)}
    IN  \E l, m \in labels :
            /\ l # m
            /\ Count(items, l) = Count(items, m)
            /\ \A x \in labels : Count(items, x) <= Count(items, l)

\* C30: given the same records in any order, aggregate_by_period returns the
\* same buckets (period, total_items, sentiment_distribution, min_score,
\* max_score) and aggregate_by_source the same sources with the same
\* total_items and label counts; dominant differs between two orders only
\* when two labels tie for the highest count of the source.
C30_OrderIndependent ==
    /\ call.op = "aggregate_by_period" =>
          \A p \in Orders(Len(data)) :
              Shape(aggregate_by_period(Permuted(data, p), call.period, call.date_field))
                 = Shape(result.value)
    /\ call.op = "aggregate_by_source" =>
          \A p \in Orders(Len(data)) :
              LET other == aggregate_by_source(Permuted(data, p), tsType)
              IN  /\ other.status = result.status
                  /\ result.status = "ok" =>
                        /\ DOMAIN other.value = DOMAIN result.value
                        /\ \A s \in DOMAIN result.value :
                              LET mine == result.value[s]
                                  theirs == other.value[s]
                              IN  /\ theirs.total_items = mine.total_items
                                  /\ \A l \in KnownLabels :
                                        theirs.sentiment_summary[l] = mine.sentiment_summary[l]
                                  /\ theirs.sentiment_summary.dominant # mine.sentiment_summary.dominant
                                        => TiedAtTop(data, s)

\* the positions of a trace that hold an event of one of the kinds
EventsOf(trace, kinds) == {k \in DOMAIN trace : trace[k][1] \in kinds}

\* C25: scrape_with_requests on a URL it may fetch makes at most max_retries
\* attempts, every attempt ending in a response or a RequestException; a
\* response ends the call, which returns its body; after a failed attempt
\* that is not the last it sleeps retry_delay and tries again, after the last
\* it raises that RequestException without sleeping; it never returns without
\* a response.
C25_BoundedRetry ==
    \A i \in DOMAIN tasks :
        (~config.use_playwright /\ tasks[i].pc = "done" /\ tasks[i].html # "PermissionError") =>
            LET tr == tasks[i].trace
                requests == EventsOf(tr, {"request"})
            IN  /\ Cardinality(requests) <= config.max_retries
                /\ \A k \in requests :
                      k < Len(tr) /\ tr[k + 1][1] \in {"response", "RequestException"}
                /\ \A k \in EventsOf(tr, {"response"}) : k = Len(tr)
                /\ \A k \in EventsOf(tr, {"RequestException"}) :
                      IF k < Len(tr)
                      THEN /\ tr[k + 1] = <<"retry", tr[k][2] + config.retry_delay>>
                           /\ \E n \in requests : n > k /\ tr[n][2] >= tr[k + 1][2]
                      ELSE Cardinality(requests) = config.max_retries
                /\ \A k \in EventsOf(tr, {"retry"}) :
                      k > 1 /\ k < Len(tr) /\ tr[k - 1][1] = "RequestException"
                /\ tasks[i].html \in {"body", "RequestException"}
                /\ tasks[i].html = "body" <=> (tr # <<>> /\ tr[Len(tr)][1] = "response")
                /\ tasks[i].html = "RequestException"
                      <=> (tr # <<>> /\ tr[Len(tr)][1] = "RequestException")

\* the entries of the list handed to scrape_multiple that have a url
WithUrl ==
    LET HasUrl(url_config) == url_config.url # Absent
    IN  SelectSeq(url_configs, HasUrl)

\* what scrape reports for a fetch that gave the page or failed with e
Reported(r, fetched) ==
    IF fetched = "body" THEN r.success /\ r.error = "None"
    ELSE /\ ~r.success
         /\ r.texts = <<>>
         /\ r.error = (IF fetched = "None" THEN "TypeError" ELSE fetched)

\* C26: scrape never raises: whatever its fetch gave, it returns a result,
\* with success False, no texts and the error's message when the fetch
\* failed; scrape_multiple does not raise and returns one result per entry
\* that has a url, in the order of the list, each result being what that
\* URL's own fetch gave, whatever happened to the others.
C26_FailureIsolation ==
    /\ \A i \in DOMAIN tasks :
          tasks[i].pc = "done" =>
              /\ "escaped" \notin DOMAIN tasks[i].result
              /\ Reported(tasks[i].result, tasks[i].html)
    /\ results.status # "raised"
    /\ results.status = "ok" =>
          /\ Len(results.value) = Len(WithUrl)
          /\ \A i \in 1..Len(WithUrl) :
                /\ results.value[i].url = WithUrl[i].url[1]
                /\ Reported(results.value[i], tasks[i].html)

\* of three entries the second has no url; the first URL fails and the last
\* one succeeds
C26_Witness ==
    /\ Len(url_configs) = 3
    /\ url_configs[2] = NoUrlConfig
    /\ results.status = "ok"
    /\ Len(results.value) = 2
    /\ ~results.value[1].success
    /\ results.value[1].error = "RequestException"
    /\ results.value[2].success

\* the jobs registered in the underlying scheduler: the pending ones and the
\* stored ones
Registered ==
    {scheduler.pending[i] : i \in DOMAIN scheduler.pending}
        \cup {scheduler.jobstore[id][1] : id \in {d \in JobIds : scheduler.jobstore[d] # NoJob}}

RegisteredIds == {job.id : job \in Registered}

\* C27: after any sequence of add_scraping_job, remove_job, start and stop the
\* keys of the jobs table are the ids registered in the scheduler, each id is
\* registered once and with the job added last for it, removing an unknown
\* id raises nothing, and get_job_status / list_jobs report a job as active
\* exactly for these ids.
C27_RegistryConsistent ==
    /\ JobKeys = RegisteredIds
    /\ \A i, j \in DOMAIN scheduler.pending :
           i # j => scheduler.pending[i].id # scheduler.pending[j].id
    /\ \A job \in Registered : jobs[job.id] = <<job>>
    /\ (last_call.op = "remove_job" /\ ~last_call.known) => last_call.raised = "None"
    /\ \A id \in JobIds :
           /\ get_job_status(id).status = "ok"
           /\ get_job_status(id).value.active = (id \in RegisteredIds)
    /\ list_jobs.status = "ok"
    /\ {status.id : status \in {st \in list_jobs.value : st.active}} = RegisteredIds

\* C28: every run of a scraping job, by its trigger or by run_job_now, calls
\* scrape_multiple once; it has called nothing while scraping is under way or
\* when scraping raised; once scraping has returned it has called the callback
\* that was set at that moment exactly once, with the job's id and the
\* results, and no callback if none was set; no exception leaves the run, so
\* run_job_now raises nothing, and run_job_now on an unknown id begins no run.
C28_RunProtocol ==
    /\ \A kind \in RunKinds :
           LET run == runs[kind]
           IN  run.pc # "idle" =>
                   /\ run.scrapes = 1
                   /\ ~run.raised
                   /\ run.pc = "scraping" => run.calls = <<>>
                   /\ run.failed = "scrape_multiple" => run.calls = <<>>
                   /\ (run.pc \in {"callback", "done"} /\ run.failed # "scrape_multiple") =>
                          run.calls = IF run.at_scraped # NoCallback
                                      THEN << [callback |-> run.at_scraped[1],
                                               job_id |-> run.job[1].id,
                                               results |-> run.results] >>
                                      ELSE <<>>
    /\ last_call.op = "run_job_now" =>
           /\ last_call.raised = "None"
           /\ ~last_call.known => ~last_call.began

\* a run that began after an earlier run had failed, with no callback set when
\* it began and one set when its scraping returned, has called that callback
C28_Witness ==
    \E kind \in RunKinds :
        /\ runs[kind].pc = "done"
        /\ runs[kind].after >= 1
        /\ runs[kind].at_start = NoCallback
        /\ runs[kind].at_scraped # NoCallback
        /\ Len(runs[kind].calls) = 1

\* C29: after cleanup_old_data(days) on stored data in which every result
\* was analyzed no earlier than its page was scraped, every remaining
\* SentimentResult refers to an existing ScrapedData row, after a cleanup
\* without failure no remaining row is older than the cutoff, and after a
\* failure the three tables are as they were before.
C29_CleanupKeepsReferences ==
    cleanup.status # "none" =>
        /\ \A r \in sentiment_results : \E p \in scraped_data : p.id = r.scraped_data_id
        /\ cleanup.error = "None" =>
               /\ \A r \in sentiment_results : r.analyzed_at >= cleanup.cutoff
               /\ \A p \in scraped_data : p.scraped_at >= cleanup.cutoff
               /\ \A a \in aggregated_data : a.created_at >= cleanup.cutoff
        /\ cleanup.error # "None" =>
               Tables(sentiment_results, scraped_data, aggregated_data) = cleanup.before[1]

====
